---- MODULE Spec2Model ----
(***************************************************************************)
(* A model of the typed library: the Option and Result containers (class   *)
(* and free-function implementations) and the parser combinators built on  *)
(* Result.  JavaScript values are records tagged by field t; ParseError    *)
(* objects live in a heap because the combinators update their path in     *)
(* place.                                                                  *)
(***************************************************************************)
EXTENDS Integers, Sequences, FiniteSets, TLC

VARIABLES
  heap,   \* the ParseError objects alive, by reference (index)
  calls,  \* the parser invocations made so far, with what each returned
  opt,    \* the Option value the caller currently holds
  res,    \* the Result value the caller currently holds
  last    \* the last Option/Result operation performed and its outcome

vars == <<heap, calls, opt, res, last>>

(***************************************************************************)
(* JavaScript values.                                                      *)
(***************************************************************************)
Undefined == [t |-> "undefined"]
Null == [t |-> "null"]
Num(s) == [t |-> "number", s |-> s]
NaN == Num("NaN")
Infinity == Num("Infinity")
Str(s) == [t |-> "string", s |-> s]
Bool(s) == [t |-> "boolean", s |-> s]
Sym == [t |-> "symbol", s |-> "Symbol()"]
\* a Date object; s is its time value, "NaN" for an invalid date
DateV(s) == [t |-> "date", s |-> s]
Arr(items) == [t |-> "array", items |-> items]
\* a plain object: props is the list of own enumerable properties in order,
\* proto is "Object" ({}), "null" (Object.create(null))
Obj(props) == [t |-> "object", props |-> props, proto |-> "Object"]
BareObj(props) == [t |-> "object", props |-> props, proto |-> "null"]
Prop(k, v) == [k |-> k, v |-> v]
\* a reference to a ParseError object of the heap
Ref(i) == [t |-> "ParseError", ref |-> i]

\* the decimal numerals the model's strings and numbers range over
Numerals == {"0", "1", "2", "10", "42", "69", "70", "123"}
\* the strings Date.parse accepts in every engine (ISO format), with their time
IsoDates == {"1970-01-01T00:00:00.000Z"}

RECURSIVE HasKey(_, _)
HasKey(props, key) ==
  IF props = <<>> THEN FALSE
  ELSE IF Head(props).k = key THEN TRUE ELSE HasKey(Tail(props), key)

\* input[key] on an object: the property's value, undefined when missing
RECURSIVE Get(_, _)
Get(props, key) ==
  IF props = <<>> THEN Undefined
  ELSE IF Head(props).k = key THEN Head(props).v ELSE Get(Tail(props), key)

\* obj[key] = value: replaces the value in place, or appends a new property
RECURSIVE Put(_, _, _)
Put(props, key, value) ==
  IF props = <<>> THEN <<Prop(key, value)>>
  ELSE IF Head(props).k = key THEN <<Prop(key, value)>> \o Tail(props)
  ELSE <<Head(props)>> \o Put(Tail(props), key, value)

\* i.toString() for the indices the model uses
IndexString(i) ==
  CASE i = 0 -> "0" [] i = 1 -> "1" [] i = 2 -> "2" [] i = 3 -> "3"
    [] OTHER -> "4"

\* input[i] on an array, 0-based: undefined past the end
At(items, i) == IF i < Len(items) THEN items[i + 1] ELSE Undefined

(***************************************************************************)
(* guards.ts                                                               *)
(***************************************************************************)
isString(input) == input.t = "string"
isNumber(input) == input.t = "number"
isBoolean(input) == input.t = "boolean"
isUndefined(input) == input.t = "undefined"
isNull(value) == value.t = "null"
isNil(value) == isNull(value) \/ isUndefined(value)
isPresent(value) == ~isNil(value)
isDate(value) == value.t = "date"
isArray(value) == value.t = "array"
isPlainObject(value) == value.t = "object"
\* a test that leaves out NaN only
NumberIsFinite_nan(value) == value.s # "NaN"

NumberIsFinite(value) == value.s \notin {"NaN", "Infinity", "-Infinity"}
isValidNumber(value) == isNumber(value) /\ NumberIsFinite(value)
isValidDate(value) == isDate(value) /\ value.s # "NaN"

(***************************************************************************)
(* util.ts                                                                 *)
(***************************************************************************)
\* what a call comes to: a returned value, or an exception raised
\* ncalls counts the calls made to the caller's callbacks on the way
Return(v) == [value |-> v, threw |-> FALSE, ncalls |-> 0]
Thrown(name, msg) ==
  [threw |-> TRUE, ncalls |-> 0, name |-> name, message |-> msg]

\* new Error(err), thrown.  In the messages of this module an apostrophe
\* stands for the source's backquote, which a TLA+ string cannot hold.
raise(err) == Thrown("Error", err)

identity(value) == value

getTypeOf(value) ==
  CASE value.t = "null" -> "null"
    [] value.t = "boolean" -> "boolean"
    [] value.t = "number" ->
         IF value.s = "NaN" THEN "nan"
         ELSE IF ~NumberIsFinite(value) THEN "infinity" ELSE "number"
    [] value.t = "string" -> "string"
    [] value.t = "symbol" -> "symbol"
    [] value.t = "undefined" -> "undefined"
    [] value.t = "array" -> "array"
    [] value.t = "date" -> "date"
    [] value.t = "ParseError" -> "error"
    [] OTHER -> "object"

(***************************************************************************)
(* The caller's functions.  A value function is [fn |-> "id"], the         *)
(* identity, [fn |-> "const", ret |-> v], which returns v whatever it is   *)
(* given, [fn |-> "typeof"], (v) => getTypeOf(v), [fn |-> "comp"], one     *)
(* function after another, or [fn |-> "some"], the constructor Some passed *)
(* as a function; a predicate is the set of values it accepts.             *)
(***************************************************************************)
RECURSIVE Apply(_, _)
Apply(f, v) ==
  CASE f.fn = "id" -> v
    [] f.fn = "typeof" -> Str(getTypeOf(v))
    [] f.fn = "comp" -> Apply(f.g, Apply(f.f, v))
    [] f.fn = "some" -> [value |-> v, tag |-> "Some"]
    [] f.fn = "concat" -> Str(v.s \o f.suffix)
    [] OTHER -> f.ret

\* one call of the caller's function f on v
Call(f, v) == [value |-> Apply(f, v), threw |-> FALSE, ncalls |-> 1]
\* one call of the caller's predicate
Test(pred, v) == [value |-> v \in pred, threw |-> FALSE, ncalls |-> 1]

\* throw e: any value can be raised
Raise(e) == [threw |-> TRUE, ncalls |-> 0, raised |-> e]

\* an Error object of the engine's
ErrorV(name) == [t |-> "error", s |-> name]

\* JSON.parse(json), for the texts the model's callers hold: the value a text
\* of the JSON grammar stands for, a SyntaxError raised on any other text
JSON_parse(json) ==
  CASE json = "null" -> Return(Null)
    [] json = "10" -> Return(Num("10"))
    [] json = "\"x\"" -> Return(Str("x"))
    [] json = "[1,\"x\"]" -> Return(Arr(<<Num("1"), Str("x")>>))
    [] json = "{\"a\":1}" -> Return(Obj(<<Prop("a", Num("1"))>>))
    [] json = "{\"toString\":1}" ->
         Return(Obj(<<Prop("toString", Num("1"))>>))
    [] OTHER -> Raise(ErrorV("SyntaxError"))

\* one call of the caller's function of no argument: [fn |-> "throw"] raises
\* the value err, [fn |-> "JSON.parse"] is () => JSON.parse(json), any other
\* returns as Apply says
Invoke(f) ==
  IF f.fn = "throw" THEN [Raise(f.err) EXCEPT !.ncalls = 1]
  ELSE IF f.fn = "JSON.parse" THEN [JSON_parse(f.json) EXCEPT !.ncalls = 1]
  ELSE Call(f, Undefined)

\* r, then g on what r returned: an exception cuts the sequence short
Then(r, g(_)) ==
  IF r.threw THEN r
  ELSE LET q == g(r.value) IN [q EXCEPT !.ncalls = r.ncalls + q.ncalls]

(***************************************************************************)
(* option.ts: class Option                                                 *)
(***************************************************************************)
\* from, taking every falsy value for an absent one
Option_from_truthy(value) ==
  IF isPresent(value) /\ value \notin {Num("0"), Str(""), Bool("false"), NaN}
  THEN [value |-> value, tag |-> "Some"]
  ELSE [tag |-> "None"]

Option_from(value) ==
  IF isPresent(value) THEN [value |-> value, tag |-> "Some"]
  ELSE [tag |-> "None"]

Option_Some(value) == [value |-> value, tag |-> "Some"]

Option_None == [tag |-> "None"]

Option_match(self, onSome(_), onNone) ==
  IF self.tag = "Some" THEN onSome(self.value) ELSE onNone

Option_isSome(self) == self.tag = "Some"

Option_isNone(self) == ~Option_isSome(self)

Option_expect(self, msg) ==
  Option_match(self, LAMBDA v: Return(identity(v)), raise(msg))

\* unwrap, answering undefined where there is no value
Option_unwrap_quiet(self) ==
  Option_match(self, LAMBDA v: Return(identity(v)), Return(Undefined))

Option_unwrap(self) ==
  Option_match(self, LAMBDA v: Return(identity(v)),
               raise("called Option.unwrap on a 'None' value"))

Option_unwrapOr(self, defaultValue) ==
  Option_match(self, LAMBDA v: Return(identity(v)), Return(defaultValue))

Option_unwrapOrElse(self, f) ==
  Option_match(self, LAMBDA v: Return(identity(v)), Call(f, Undefined))

\* map, taking a null or undefined result for an absent value
Option_map_from(self, f) ==
  Option_match(self,
               LAMBDA value: Then(Call(f, value),
                                  LAMBDA u: Return(Option_from(u))),
               Return(self))

Option_map(self, f) ==
  Option_match(self,
               LAMBDA value: Then(Call(f, value),
                                  LAMBDA u: Return(Option_Some(u))),
               Return(self))

Option_and(self, optb) ==
  Option_match(self, LAMBDA v: Return(optb), Return(self))

Option_andThen(self, f) ==
  Option_match(self, LAMBDA v: Call(f, v), Return(self))

Option_filter(self, predicate) ==
  IF Option_isSome(self)
  THEN LET value == Option_unwrap(self).value
       IN Then(Test(predicate, value),
               LAMBDA passed: IF passed THEN Return(Option_Some(value))
                              ELSE Return(self))
  ELSE Return(self)

Option_or(self, optb) ==
  Option_match(self, LAMBDA v: Return(self), Return(optb))

Option_orElse(self, f) ==
  Option_match(self, LAMBDA v: Return(self), Call(f, Undefined))

Option_xor(self, optb) ==
  IF Option_isSome(self) /\ Option_isNone(optb) THEN Return(self)
  ELSE IF Option_isNone(self) /\ Option_isSome(optb) THEN Return(optb)
  ELSE Return(Option_None)

(***************************************************************************)
(* The free-function Option module                                         *)
(***************************************************************************)
O_Some(value) == [value |-> value, tag |-> "Some"]

O_None == [tag |-> "None"]

O_isSome(o) == o.tag = "Some"

O_isNone(o) == o.tag = "None"

O_and(o, optb) == IF O_isSome(o) THEN Return(optb) ELSE Return(o)

O_andThen(o, f) == IF O_isSome(o) THEN Call(f, o.value) ELSE Return(o)

O_expect(o, msg) == IF O_isSome(o) THEN Return(o.value) ELSE raise(msg)

O_filter(o, predicate) ==
  IF O_isSome(o)
  THEN Then(Test(predicate, o.value),
            LAMBDA passed: IF passed THEN Return(o) ELSE Return(O_None))
  ELSE Return(O_None)

O_map(o, f) ==
  IF O_isSome(o)
  THEN Then(Call(f, o.value), LAMBDA u: Return(O_Some(u)))
  ELSE Return(o)

O_or(opta, optb) == IF O_isSome(opta) THEN Return(opta) ELSE Return(optb)

O_orElse(o, f) == IF O_isSome(o) THEN Return(o) ELSE Call(f, Undefined)

O_unwrap(o) ==
  IF O_isSome(o) THEN Return(o.value)
  ELSE raise("called Option.unwrap on a 'None' value")

O_unwrapOr(o, def) == IF O_isSome(o) THEN Return(o.value) ELSE Return(def)

O_unwrapOrElse(o, def) ==
  IF O_isSome(o) THEN Return(o.value) ELSE Call(def, Undefined)

\* into, wrapping whatever it is given
O_into_any(value) == O_Some(value)

O_into(value) == IF isNil(value) THEN O_None ELSE O_Some(value)

(***************************************************************************)
(* class Result                                                            *)
(***************************************************************************)
Result_Ok(value) == [value |-> value, tag |-> "Ok"]

Result_Err(error) == [tag |-> "Err", error |-> error]

\* from, with no try around the call
Result_from_bare(f) == Then(Invoke(f), LAMBDA v: Return(Result_Ok(v)))

\* try { return Ok(f()) } catch (err) { return Err(err) }
Result_from(f) ==
  LET c == Invoke(f)
  IN [Return(IF c.threw THEN Result_Err(c.raised) ELSE Result_Ok(c.value))
        EXCEPT !.ncalls = c.ncalls]

Result_match(self, onOk(_), onErr(_)) ==
  IF self.tag = "Ok" THEN onOk(self.value) ELSE onErr(self.error)

Result_isOk(self) == self.tag = "Ok"

Result_isErr(self) == ~Result_isOk(self)

\* ok, keeping the error where there is no value
Result_ok_any(self) ==
  Result_match(self, LAMBDA v: Return(Option_Some(v)),
               LAMBDA e: Return(Option_Some(e)))

Result_ok(self) ==
  Result_match(self, LAMBDA v: Return(Option_Some(v)),
               LAMBDA e: Return(Option_None))

Result_err(self) ==
  Result_match(self, LAMBDA v: Return(Option_None),
               LAMBDA e: Return(Option_Some(e)))

Result_map(self, f) ==
  Result_match(self,
               LAMBDA value: Then(Call(f, value),
                                  LAMBDA u: Return(Result_Ok(u))),
               LAMBDA e: Return(self))

Result_unwrap(self) ==
  Result_match(self, LAMBDA v: Return(identity(v)),
               LAMBDA e: raise("called Result.unwrap on an 'Err' value"))

Result_unwrapErr(self) ==
  Result_match(self,
               LAMBDA v: raise("called Result.unwrapErr on an 'Ok' value"),
               LAMBDA e: Return(identity(e)))

Result_andThen(self, f) ==
  Result_match(self, LAMBDA v: Call(f, v), LAMBDA e: Return(self))

Result_unwrapOr(self, defaultValue) ==
  Result_match(self, LAMBDA v: Return(identity(v)),
               LAMBDA e: Return(defaultValue))

(***************************************************************************)
(* result.ts: the free-function Result module                              *)
(***************************************************************************)
R_Ok(value) == [value |-> value, tag |-> "Ok"]

R_Err(error) == [tag |-> "Err", error |-> error]

R_isOk(result) == result.tag = "Ok"

R_isErr(result) == result.tag = "Err"

\* try { return Ok(fn()) } catch (err) { return Err(err) }
R_into(fn) ==
  LET c == Invoke(fn)
  IN [Return(IF c.threw THEN R_Err(c.raised) ELSE R_Ok(c.value))
        EXCEPT !.ncalls = c.ncalls]

R_unwrap(r) ==
  IF R_isErr(r) THEN raise("called unwrap on an 'Err' value")
  ELSE Return(r.value)

R_unwrapErr(r) ==
  IF R_isOk(r) THEN raise("called unwrapErr on an 'Ok' value")
  ELSE Return(r.error)

R_unwrapOr(r, def) == IF R_isOk(r) THEN Return(r.value) ELSE Return(def)

R_ok(r) == IF R_isOk(r) THEN Return(O_Some(r.value)) ELSE Return(O_None)

(***************************************************************************)
(* The conversions the primitive parsers use under coerce: true, as the    *)
(* language defines them.                                                  *)
(***************************************************************************)
\* ToString of the language: what String(x) does to anything but a symbol
RECURSIVE JS_ToString(_)
RECURSIVE Join(_)
JS_ToString(v) ==
  CASE v.t = "undefined" -> Return(Str("undefined"))
    [] v.t = "null" -> Return(Str("null"))
    [] v.t \in {"boolean", "number", "string"} -> Return(Str(v.s))
    [] v.t = "symbol" ->
         Thrown("TypeError", "Cannot convert a Symbol value to a string")
    [] v.t = "array" -> Join(v.items)
    [] v.t = "date" ->
         Return(Str(IF v.s = "NaN" THEN "Invalid Date" ELSE "Date " \o v.s))
    [] v.t = "object" /\ v.proto = "null" ->
         Thrown("TypeError", "Cannot convert object to primitive value")
    [] v.t = "object" /\ HasKey(v.props, "toString") ->
         \* an own toString that is no function: valueOf, inherited, gives
         \* the object back, and no primitive is found
         Thrown("TypeError", "Cannot convert object to primitive value")
    [] OTHER -> Return(Str("[object Object]"))

\* Array.prototype.join(","): null and undefined elements give ""
Join(items) ==
  IF items = <<>> THEN Return(Str(""))
  ELSE LET h == IF isNil(Head(items)) THEN Return(Str(""))
                ELSE JS_ToString(Head(items))
       IN IF h.threw THEN h
          ELSE IF Len(items) = 1 THEN h
          ELSE LET r == Join(Tail(items))
               IN IF r.threw THEN r
                  ELSE Return(Str(h.value.s \o "," \o r.value.s))

\* String(x): a symbol gives its description
JS_String(v) == IF v.t = "symbol" THEN Return(Str(v.s)) ELSE JS_ToString(v)

\* the number a string converts to
StringToNumber(s) ==
  IF s = "" THEN Num("0")
  ELSE IF s \in Numerals \cup {"Infinity", "-Infinity"} THEN Num(s)
  ELSE NaN

\* Number(x)
JS_Number(v) ==
  CASE v.t = "undefined" -> Return(NaN)
    [] v.t = "null" -> Return(Num("0"))
    [] v.t = "boolean" -> Return(Num(IF v.s = "true" THEN "1" ELSE "0"))
    [] v.t = "number" -> Return(v)
    [] v.t = "string" -> Return(StringToNumber(v.s))
    [] v.t = "symbol" ->
         Thrown("TypeError", "Cannot convert a Symbol value to a number")
    [] v.t = "date" -> Return(Num(v.s))
    [] OTHER ->
         LET str == JS_ToString(v)
         IN IF str.threw THEN str ELSE Return(StringToNumber(str.value.s))

\* new Date(x) for a string or a number x.  A string that is not in the ISO
\* format is parsed as the engine pleases: legacy says whether this engine
\* reads a bare numeral as a date.
JS_Date(v, legacy) ==
  IF v.t = "number"
  THEN DateV(IF NumberIsFinite(v) THEN v.s ELSE "NaN")
  ELSE IF v.s \in IsoDates THEN DateV("0")
  ELSE IF legacy /\ v.s \in Numerals THEN DateV("year " \o v.s)
  ELSE DateV("NaN")

(***************************************************************************)
(* The parsers.  A parser is a record naming the combinator that built it  *)
(* (field k) with the arguments it was built from; Parse applies one to an *)
(* input.  An invocation runs in a state st: the heap of ParseError        *)
(* objects, and which way the engine parses dates (legacy).  Three things  *)
(* are kept for the checks only: with each error the place in the input    *)
(* where it was created (site, the keys and indices the running parsers    *)
(* have descended through: at) and the parser that created it (origin),    *)
(* st.log, the errors the structural parsers were handed by their          *)
(* children, each with its path as the child returned it, and st.seen, the *)
(* parsers applied, in the order of their application.                     *)
(***************************************************************************)
Ran(out, st) == [out |-> out, st |-> st]

\* no argument, no error: the empty slot of a record
NoArg == [none |-> TRUE]

Succeed(value, st) == Ran(Return(Result_Ok(value)), st)

\* new ParseError(message, expected, actual, input): path defaults to []
ParseError(message, expected, actual, input) ==
  [input |-> input, message |-> message, expected |-> expected,
   actual |-> actual, path |-> <<>>]

typeErr(expected, input) ==
  LET actual == getTypeOf(input)
  IN ParseError("Type '" \o actual \o "' is not assignable to type '"
                  \o expected \o "'",
                expected, actual, input)

\* Err(typeErr(expected, input)): the error is a new object of the heap
Fail(expected, input, at, origin, st) ==
  LET e == typeErr(expected, input)
      obj == [input |-> e.input, message |-> e.message,
              expected |-> e.expected, actual |-> e.actual, path |-> e.path,
              origin |-> origin, site |-> at]
  IN Ran(Return(Result_Err(Ref(Len(st.heap) + 1))),
         [st EXCEPT !.heap = Append(@, obj)])

\* err.path.push(seg)
unshift_push(path, seg) == path \o <<seg>>

\* err.path.unshift(seg)
unshift(path, seg) == <<seg>> \o path

\* return res: the child's failure handed on as it came
Propagate_asis(c, seg) ==
  LET err == Result_unwrapErr(c.out.value).value
      entry == [ref |-> err.ref, path |-> c.st.heap[err.ref].path]
  IN Ran(Return(Result_Err(err)), [c.st EXCEPT !.log = Append(@, entry)])

\* const err = res.unwrapErr(); err.path.unshift(seg); return Err(err);
\* as array, object, record and tuple do with a child's failure c
Propagate(c, seg) ==
  LET err == Result_unwrapErr(c.out.value).value
      entry == [ref |-> err.ref, path |-> c.st.heap[err.ref].path]
  IN Ran(Return(Result_Err(err)),
         [c.st EXCEPT !.heap[err.ref].path = unshift(@, seg),
                      !.log = Append(@, entry)])

\* a === b on primitives
StrictEquals(a, b) == a = b /\ a # NaN

\* Array.prototype.includes: SameValueZero, under which NaN equals NaN
Includes(values, x) == \E i \in 1..Len(values) : values[i] = x

\* values.join(sep) for primitives
RECURSIVE JoinWith(_, _)
JoinWith(strs, sep) ==
  IF strs = <<>> THEN ""
  ELSE IF Len(strs) = 1 THEN Head(strs)
  ELSE Head(strs) \o sep \o JoinWith(Tail(strs), sep)

\* the name of the function a parser is: the factories return anonymous
\* arrow functions; unknown is a named constant; a caller's has its own
Name(p) ==
  IF p.k = "unknown" THEN "unknown"
  ELSE IF p.k = "user" THEN p.name ELSE ""

\* fns.reduce((v, f) => f(v), value)
\* the call of a caller's function f, noted in st.seen
Noted(f, at, st) == [st EXCEPT !.seen = Append(@, [at |-> at, p |-> f])]

RECURSIVE Reduce(_, _, _, _)
\* a reduce that starts with the last function
Reduce_right(fns, value, at, st) ==
  IF fns = <<>> THEN [value |-> value, st |-> st]
  ELSE LET f == fns[Len(fns)]
       IN Reduce(SubSeq(fns, 1, Len(fns) - 1), Apply(f, value), at,
                 Noted(f, at, st))

Reduce(fns, value, at, st) ==
  IF fns = <<>> THEN [value |-> value, st |-> st]
  ELSE Reduce(Tail(fns), Apply(Head(fns), value), at,
              Noted(Head(fns), at, st))

\* Object.assign(obj, value) for a plain object value
RECURSIVE Assign(_, _)
Assign(obj, props) ==
  IF props = <<>> THEN obj
  ELSE Assign(Put(obj, Head(props).k, Head(props).v), Tail(props))

RECURSIVE Parse(_, _, _, _)
RECURSIVE array_for(_, _, _, _, _, _)
RECURSIVE object_for(_, _, _, _, _, _)
RECURSIVE record_for(_, _, _, _, _, _, _)
RECURSIVE intersection_for(_, _, _, _, _, _)
RECURSIVE tuple_for(_, _, _, _, _, _)
RECURSIVE union_for(_, _, _, _, _)

P_string(opts, input, at, st) ==
  LET c == IF opts.coerce THEN JS_String(input) ELSE Return(input)
  IN IF c.threw THEN Ran(c, st)
     ELSE IF isString(c.value) THEN Succeed(c.value, st)
     ELSE Fail("string", c.value, at, "string", st)

P_number(opts, input, at, st) ==
  LET c == IF opts.coerce THEN JS_Number(input) ELSE Return(input)
  IN IF c.threw THEN Ran(c, st)
     ELSE IF isValidNumber(c.value) THEN Succeed(c.value, st)
     ELSE Fail("number", c.value, at, "number", st)

P_boolean(input, at, st) ==
  IF isBoolean(input) THEN Succeed(input, st)
  ELSE Fail("boolean", input, at, "boolean", st)

P_date(opts, input, at, st) ==
  LET c == IF opts.coerce /\ (isString(input) \/ isNumber(input))
           THEN JS_Date(input, st.legacy) ELSE input
  IN IF isValidDate(c) THEN Succeed(c, st)
     ELSE Fail("date", c, at, "date", st)

P_optional(parser, input, at, st) ==
  IF isNil(input) THEN Succeed(Option_None, st)
  ELSE LET c == Parse(parser, input, at, st)
       IN IF c.out.threw THEN c
          ELSE Ran(Return(Result_map(c.out.value, [fn |-> "some"]).value),
                   c.st)

P_defaulted(parser, def, input, at, st) ==
  IF isNil(input) THEN Succeed(def, st) ELSE Parse(parser, input, at, st)

\* a maybe that hands every input to the parser
P_maybe_through(parser, input, at, st) == Parse(parser, input, at, st)

P_maybe(parser, input, at, st) ==
  IF isNil(input) THEN Succeed(input, st) ELSE Parse(parser, input, at, st)

\* a loop that leaves a failing element out and goes on
array_for_skip(parser, input, arr, i, at, st) ==
  IF ~(i < Len(input.items)) THEN Succeed(Arr(arr), st)
  ELSE LET c == Parse(parser, At(input.items, i),
                      at \o <<IndexString(i)>>, st)
       IN IF c.out.threw THEN c
          ELSE IF Result_isErr(c.out.value)
          THEN array_for(parser, input, arr, i + 1, at, c.st)
          ELSE array_for(parser, input,
                         Append(arr, Result_unwrap(c.out.value).value),
                         i + 1, at, c.st)

\* for (let i = 0; i < arr.length; i++), arr = Array(input.length)
array_for(parser, input, arr, i, at, st) ==
  IF ~(i < Len(input.items)) THEN Succeed(Arr(arr), st)
  ELSE LET c == Parse(parser, At(input.items, i),
                      at \o <<IndexString(i)>>, st)
       IN IF c.out.threw THEN c
          ELSE IF Result_isErr(c.out.value) THEN Propagate(c, IndexString(i))
          ELSE array_for(parser, input,
                         Append(arr, Result_unwrap(c.out.value).value),
                         i + 1, at, c.st)

P_array(parser, input, at, st) ==
  IF ~isArray(input) THEN Fail("array", input, at, "array", st)
  ELSE array_for(parser, input, <<>>, 0, at, st)

\* n counts the keys of shape, from 1
object_for(shape, input, obj, n, at, st) ==
  IF n > Len(shape) THEN Succeed(BareObj(obj), st)
  ELSE LET key == shape[n].k
           c == Parse(shape[n].v, Get(input.props, key), at \o <<key>>, st)
       IN IF c.out.threw THEN c
          ELSE IF Result_isErr(c.out.value) THEN Propagate(c, key)
          ELSE object_for(shape, input,
                          Put(obj, key, Result_unwrap(c.out.value).value),
                          n + 1, at, c.st)

\* an object that starts as a copy of the input: const obj = {...input}
P_object_spread(shape, input, at, st) ==
  IF ~isPlainObject(input) THEN Fail("object", input, at, "object", st)
  ELSE object_for(shape, input, input.props, 1, at, st)

P_object(shape, input, at, st) ==
  IF ~isPlainObject(input) THEN Fail("object", input, at, "object", st)
  ELSE object_for(shape, input, <<>>, 1, at, st)

\* a loop that takes the keys as they are and parses the values only
record_for_anykey(keyParser, valueParser, input, obj, n, at, st) ==
  IF n > Len(input.props) THEN Succeed(BareObj(obj), st)
  ELSE LET key == input.props[n].k
           vres == Parse(valueParser, input.props[n].v, at \o <<key>>, st)
       IN IF vres.out.threw THEN vres
          ELSE IF Result_isErr(vres.out.value) THEN Propagate(vres, key)
          ELSE record_for(keyParser, valueParser, input,
                          Put(obj, key, Result_unwrap(vres.out.value).value),
                          n + 1, at, vres.st)

\* n counts the properties of input, from 1
record_for(keyParser, valueParser, input, obj, n, at, st) ==
  IF n > Len(input.props) THEN Succeed(BareObj(obj), st)
  ELSE LET key == input.props[n].k
           kres == Parse(keyParser, Str(key), at \o <<key>>, st)
       IN IF kres.out.threw THEN kres
          ELSE IF Result_isErr(kres.out.value) THEN Propagate(kres, key)
          ELSE LET vres == Parse(valueParser, input.props[n].v,
                                 at \o <<key>>, kres.st)
               IN IF vres.out.threw THEN vres
                  ELSE IF Result_isErr(vres.out.value)
                  THEN Propagate(vres, key)
                  ELSE record_for(keyParser, valueParser, input,
                                  Put(obj, Result_unwrap(kres.out.value).value.s,
                                      Result_unwrap(vres.out.value).value),
                                  n + 1, at, vres.st)

P_record(keyParser, valueParser, input, at, st) ==
  IF ~isPlainObject(input) THEN Fail("object", input, at, "record", st)
  ELSE record_for(keyParser, valueParser, input, <<>>, 1, at, st)

P_chain(parser, fns, input, at, st) ==
  LET c == Parse(parser, input, at, st)
  IN IF c.out.threw THEN c
     ELSE IF Result_isOk(c.out.value)
     THEN LET r == Reduce(fns, c.out.value.value, at, c.st)
          IN Ran(Return(Result_Ok(r.value)), r.st)
     ELSE c

\* the function given to map: [fn |-> "check"] is the library's own kind,
\* (v) => (accepted(v) ? Ok(v) : Err(typeErr(expected, v))); [fn |-> "fixed"]
\* is a caller's that answers with one Err it made beforehand
MapFn(f, v, at, st) ==
  IF f.fn = "check"
  THEN IF v \in f.accept THEN Succeed(v, st)
       ELSE Fail(f.expected, v, at, "map", st)
  ELSE Ran(Return(Result_Err(Ref(f.ref))), st)

P_map(parser, f, input, at, st) ==
  LET c == Parse(parser, input, at, st)
  IN IF c.out.threw THEN c
     ELSE IF Result_isOk(c.out.value) THEN MapFn(f, c.out.value.value, at, c.st)
     ELSE c

\* en lists the enum object's properties; values = Object.values(en)
P_enums(en, input, at, st) ==
  LET values == [i \in 1..Len(en) |-> en[i].v]
  IN IF Includes(values, input) THEN Succeed(input, st)
     ELSE Fail(JoinWith([i \in 1..Len(values) |-> values[i].s], " | "),
               input, at, "enums", st)

\* a loop in which a key already there keeps its value
intersection_for_keep(structs, input, obj, n, at, st) ==
  IF n > Len(structs) THEN Succeed(BareObj(obj), st)
  ELSE LET c == Parse(structs[n], input, at, st)
       IN IF c.out.threw THEN c
          ELSE IF Result_isErr(c.out.value) THEN c
          ELSE intersection_for(structs, input,
                                Assign(Result_unwrap(c.out.value).value.props,
                                       obj),
                                n + 1, at, c.st)

\* for (const struct of structs), n counting the parsers from 1
intersection_for(structs, input, obj, n, at, st) ==
  IF n > Len(structs) THEN Succeed(BareObj(obj), st)
  ELSE LET c == Parse(structs[n], input, at, st)
       IN IF c.out.threw THEN c
          ELSE IF Result_isErr(c.out.value) THEN c
          ELSE intersection_for(structs, input,
                                Assign(obj,
                                       Result_unwrap(c.out.value).value.props),
                                n + 1, at, c.st)

P_intersection(structs, input, at, st) ==
  intersection_for(structs, input, <<>>, 1, at, st)

P_literal(constant, input, at, st) ==
  IF StrictEquals(input, constant) THEN Succeed(constant, st)
  ELSE Fail(JS_String(constant).value.s, input, at, "literal", st)

\* a loop that ends where the input ends
tuple_for_short(parsers, input, arr, i, at, st) ==
  IF ~(i < Len(parsers)) \/ ~(i < Len(input.items))
  THEN Succeed(Arr(arr), st)
  ELSE LET c == Parse(parsers[i + 1], At(input.items, i),
                      at \o <<IndexString(i)>>, st)
       IN IF c.out.threw THEN c
          ELSE IF Result_isErr(c.out.value) THEN Propagate(c, IndexString(i))
          ELSE tuple_for(parsers, input,
                         Append(arr, Result_unwrap(c.out.value).value),
                         i + 1, at, c.st)

\* for (let i = 0; i < parsers.length; i++)
tuple_for(parsers, input, arr, i, at, st) ==
  IF ~(i < Len(parsers)) THEN Succeed(Arr(arr), st)
  ELSE LET c == Parse(parsers[i + 1], At(input.items, i),
                      at \o <<IndexString(i)>>, st)
       IN IF c.out.threw THEN c
          ELSE IF Result_isErr(c.out.value) THEN Propagate(c, IndexString(i))
          ELSE tuple_for(parsers, input,
                         Append(arr, Result_unwrap(c.out.value).value),
                         i + 1, at, c.st)

P_tuple(parsers, input, at, st) ==
  IF ~isArray(input) THEN Fail("array", input, at, "tuple", st)
  ELSE tuple_for(parsers, input, <<>>, 0, at, st)

\* a loop that goes through every parser and answers with the first success
union_for_eager(parsers, input, n, at, st) ==
  IF n > Len(parsers)
  THEN Fail(JoinWith([i \in 1..Len(parsers) |-> Name(parsers[i])], " | "),
            input, at, "union", st)
  ELSE LET c == Parse(parsers[n], input, at, st)
           rest == union_for(parsers, input, n + 1, at, c.st)
       IN IF c.out.threw THEN c
          ELSE IF Result_isOk(c.out.value) THEN Ran(c.out, rest.st)
          ELSE rest

\* for (const parser of parsers), n counting the parsers from 1
union_for(parsers, input, n, at, st) ==
  IF n > Len(parsers)
  THEN Fail(JoinWith([i \in 1..Len(parsers) |-> Name(parsers[i])], " | "),
            input, at, "union", st)
  ELSE LET c == Parse(parsers[n], input, at, st)
       IN IF c.out.threw THEN c
          ELSE IF Result_isOk(c.out.value) THEN c
          ELSE union_for(parsers, input, n + 1, at, c.st)

P_union(parsers, input, at, st) == union_for(parsers, input, 1, at, st)

P_unknown(input, at, st) == Succeed(input, st)

\* a caller's own pure parser: Ok(input) on the inputs it accepts, and on
\* every other input the one Err it made beforehand (object ref of the heap)
UserParser(p, input, at, st) ==
  IF input \in p.accept THEN Succeed(input, st)
  ELSE Ran(Return(Result_Err(Ref(p.ref))), st)

\* every application of a parser is noted in st.seen, with its place
Parse(p, input, at, st0) ==
  LET st == [st0 EXCEPT !.seen = Append(@, [at |-> at, p |-> p])] IN
  CASE p.k = "string" -> P_string(p.opts, input, at, st)
    [] p.k = "number" -> P_number(p.opts, input, at, st)
    [] p.k = "boolean" -> P_boolean(input, at, st)
    [] p.k = "date" -> P_date(p.opts, input, at, st)
    [] p.k = "optional" -> P_optional(p.p, input, at, st)
    [] p.k = "defaulted" -> P_defaulted(p.p, p.def, input, at, st)
    [] p.k = "maybe" -> P_maybe(p.p, input, at, st)
    [] p.k = "array" -> P_array(p.p, input, at, st)
    [] p.k = "object" -> P_object(p.shape, input, at, st)
    [] p.k = "record" -> P_record(p.kp, p.vp, input, at, st)
    [] p.k = "chain" -> P_chain(p.p, p.fns, input, at, st)
    [] p.k = "map" -> P_map(p.p, p.f, input, at, st)
    [] p.k = "enums" -> P_enums(p.en, input, at, st)
    [] p.k = "intersection" -> P_intersection(p.ps, input, at, st)
    [] p.k = "literal" -> P_literal(p.c, input, at, st)
    [] p.k = "tuple" -> P_tuple(p.ps, input, at, st)
    [] p.k = "union" -> P_union(p.ps, input, at, st)
    [] p.k = "unknown" -> P_unknown(input, at, st)
    [] OTHER -> UserParser(p, input, at, st)

\* util.ts: Result.from(() => JSON.parse(json)).andThen(parser)
parseJson(json, parser, st) ==
  LET result == Result_from([fn |-> "JSON.parse", json |-> json]).value
  IN IF Result_isOk(result) THEN Parse(parser, result.value, <<>>, st)
     ELSE Ran(Return(result), st)

(***************************************************************************)
(* array.ts: the array module.  An array is a sequence of values; indices   *)
(* and counts are integers, 0-based as in the source.                      *)
(***************************************************************************)
getIndex(len, index) == IF index < 0 THEN len + index ELSE index

\* arr[i]: undefined where the array has no such index
Elem(arr, i) == IF 0 <= i /\ i < Len(arr) THEN arr[i + 1] ELSE Undefined

\* how slice and splice read a start or an end: a negative one counts from
\* the end, and both are kept within 0..len
Relative(len, i) ==
  IF i < 0 THEN (IF len + i < 0 THEN 0 ELSE len + i)
  ELSE IF i > len THEN len ELSE i

\* arr.slice(start, end)
Slice(arr, start, end) ==
  SubSeq(arr, Relative(Len(arr), start) + 1, Relative(Len(arr), end))

\* copy.splice(start, deleteCount, ...items): the array it leaves
Splice(copy, start, deleteCount, items) ==
  LET from == Relative(Len(copy), start)
      upto == IF from + deleteCount > Len(copy) THEN Len(copy)
              ELSE from + deleteCount
  IN SubSeq(copy, 1, from) \o items \o SubSeq(copy, upto + 1, Len(copy))

\* arr.reverse(), the elements in the opposite order
Reversed(arr) == [i \in 1..Len(arr) |-> arr[Len(arr) + 1 - i]]

\* [...new Set(arr)]: each value once, where it first occurs
Distinct(arr) ==
  LET first == {i \in 1..Len(arr) : \A j \in 1..(i - 1) : arr[j] # arr[i]}
      Nth(n) == CHOOSE i \in first : Cardinality({j \in first : j < i}) = n - 1
  IN [n \in 1..Cardinality(first) |-> arr[Nth(n)]]

\* the number of elements at the head of arr that f accepts one after another
RECURSIVE Leading(_, _)
Leading(arr, f) ==
  IF arr = <<>> \/ Head(arr) \notin f THEN 0 ELSE 1 + Leading(Tail(arr), f)

\* arr.findIndex(f): -1 when f accepts no element
FindIndex(arr, f) ==
  IF \E i \in 1..Len(arr) : arr[i] \in f
  THEN (CHOOSE i \in 1..Len(arr) :
          arr[i] \in f /\ \A j \in 1..(i - 1) : arr[j] \notin f) - 1
  ELSE -1

\* the number n as a value of the language
Number(n) == IF n < 0 THEN Num("-1") ELSE Num(IndexString(n))

A_compact(arr) == SelectSeq(arr, isPresent)

A_drop(arr, n) == Slice(arr, n, Len(arr))

A_first(arr) == O_into(Elem(arr, 0))

A_last(arr) == O_into(Elem(arr, Len(arr) - 1))

A_reverse(arr) == Reversed(arr)

A_take(arr, n) == Slice(arr, 0, n)

A_uniq(arr) == Distinct(arr)

A_at(arr, index) == O_into(Elem(arr, getIndex(Len(arr), index)))

A_find(arr, f) == O_into(Elem(arr, FindIndex(arr, f)))

A_insert(arr, value, at) == Splice(arr, getIndex(Len(arr), at), 0, <<value>>)

A_move(arr, from, to) ==
  LET f == getIndex(Len(arr), from)
      t == getIndex(Len(arr), to)
      \* copy.splice(from, 1)[0]: undefined when nothing was removed
      item == Elem(arr, Relative(Len(arr), f))
  IN Splice(Splice(arr, f, 1, <<>>), t, 0, <<item>>)

A_remove(arr, at) == Splice(arr, getIndex(Len(arr), at), 1, <<>>)

\* copy[i] = v: the elements between the old end and i, if any, are holes,
\* read as undefined; a negative i sets a property that is no element, and
\* reading a negative index before it is set gives undefined
SetElem(copy, i, v) ==
  IF i < 0 THEN copy
  ELSE [j \in 1..(IF i + 1 > Len(copy) THEN i + 1 ELSE Len(copy)) |->
          IF j = i + 1 THEN v ELSE Elem(copy, j - 1)]

A_swap(arr, a, b) ==
  LET x == getIndex(Len(arr), a)
      y == getIndex(Len(arr), b)
      temp == Elem(arr, x)
      copy1 == SetElem(arr, x, Elem(arr, y))
  IN SetElem(copy1, y, temp)

A_takeWhile(arr, f) == SubSeq(arr, 1, Leading(arr, f))

A_dropWhile(arr, f) == Slice(arr, Leading(arr, f), Len(arr))

A_findIndex(arr, f) ==
  LET i == FindIndex(arr, f) IN IF i < 0 THEN O_None ELSE O_Some(Number(i))

(***************************************************************************)
(* The caller of Option and Result: it holds one Option and one Result and *)
(* applies the operations of either implementation to them, with values,   *)
(* predicates and functions of its own.                                    *)
(***************************************************************************)
Values ==
  {Undefined, Null, Num("0"), Num("69"), Str(""), Bool("false"), NaN}

Options == {Option_None} \cup {Option_Some(v) : v \in Values}

Results == {Result_Ok(v) : v \in Values} \cup {Result_Err(v) : v \in Values}

Preds == {{}, {Num("69")}, {Num("0"), Str("")}, Values}

Fns ==
  {[fn |-> "id"]} \cup {[fn |-> "const", ret |-> v] : v \in {Null, Num("0")}}

\* the functions of no argument given to Result.from
Thunks ==
  (Fns \ {[fn |-> "id"]}) \cup
  {[err |-> e, fn |-> "throw"] : e \in {Undefined, Str("foo bar")}}

\* the functions given to map, (v) => getTypeOf(v) among them
MapFns == Fns \cup {[fn |-> "typeof"]}

\* (s) => s + suffix
Concat(suffix) == [fn |-> "concat", suffix |-> suffix]

\* (x) => g(f(x))
Compose(f, g) == [f |-> f, fn |-> "comp", g |-> g]

OptFns ==
  {[fn |-> "some"]} \cup
  {[fn |-> "const", ret |-> o] :
     o \in {Option_None, Option_Some(Num("0")), Option_Some(Null)}}

Msgs == {"foo bar"}

\* an operation that yields an Option, which the caller keeps
OptStep(op, impl, self, arg, out) ==
  /\ last' = [self |-> self, out |-> out, op |-> op, impl |-> impl, arg |-> arg]
  /\ opt' = IF out.threw THEN opt ELSE out.value
  /\ UNCHANGED <<heap, calls, res>>

\* an operation that yields a Result, which the caller keeps
ResStep(op, impl, self, arg, out) ==
  /\ last' = [self |-> self, out |-> out, op |-> op, impl |-> impl, arg |-> arg]
  /\ res' = IF out.threw THEN res ELSE out.value
  /\ UNCHANGED <<heap, calls, opt>>

\* an operation that yields a plain value or raises
ValStep(op, impl, self, arg, out) ==
  /\ last' = [self |-> self, out |-> out, op |-> op, impl |-> impl, arg |-> arg]
  /\ UNCHANGED <<heap, calls, opt, res>>

NoOp ==
  [self |-> Option_None, out |-> Return(Undefined), op |-> "init", impl |-> "",
   arg |-> NoArg]

Act_from ==
  \E v \in Values :
    \/ OptStep("from", "class", Option_None, [v |-> v], Return(Option_from(v)))
    \/ OptStep("from", "free", Option_None, [v |-> v], Return(O_into(v)))

Act_Some ==
  \E v \in Values :
    \/ OptStep("Some", "class", Option_None, [v |-> v], Return(Option_Some(v)))
    \/ OptStep("Some", "free", Option_None, [v |-> v], Return(O_Some(v)))

Act_None ==
  \/ OptStep("None", "class", Option_None, NoArg, Return(Option_None))
  \/ OptStep("None", "free", Option_None, NoArg, Return(O_None))

Act_filter ==
  \E pred \in Preds :
    \/ OptStep("filter", "class", opt, [pred |-> pred], Option_filter(opt, pred))
    \/ OptStep("filter", "free", opt, [pred |-> pred], O_filter(opt, pred))

Act_map ==
  \E f \in MapFns :
    \/ OptStep("map", "class", opt, [f |-> f], Option_map(opt, f))
    \/ OptStep("map", "free", opt, [f |-> f], O_map(opt, f))

\* o.map(f).map(g)
Act_map_map ==
  \E f \in MapFns, g \in MapFns :
    \/ OptStep("map.map", "class", opt, [f |-> f, g |-> g],
               Then(Option_map(opt, f), LAMBDA o: Option_map(o, g)))
    \/ OptStep("map.map", "free", opt, [f |-> f, g |-> g],
               Then(O_map(opt, f), LAMBDA o: O_map(o, g)))

Act_andThen ==
  \E f \in OptFns :
    \/ OptStep("andThen", "class", opt, [f |-> f], Option_andThen(opt, f))
    \/ OptStep("andThen", "free", opt, [f |-> f], O_andThen(opt, f))

Act_and ==
  \E optb \in Options :
    \/ OptStep("and", "class", opt, [o |-> optb], Option_and(opt, optb))
    \/ OptStep("and", "free", opt, [o |-> optb], O_and(opt, optb))

Act_or ==
  \E optb \in Options :
    \/ OptStep("or", "class", opt, [o |-> optb], Option_or(opt, optb))
    \/ OptStep("or", "free", opt, [o |-> optb], O_or(opt, optb))

Act_orElse ==
  \E f \in OptFns \ {[fn |-> "some"]} :
    \/ OptStep("orElse", "class", opt, [f |-> f], Option_orElse(opt, f))
    \/ OptStep("orElse", "free", opt, [f |-> f], O_orElse(opt, f))

Act_xor ==
  \E optb \in Options :
    OptStep("xor", "class", opt, [o |-> optb], Option_xor(opt, optb))

Act_unwrap ==
  \/ ValStep("unwrap", "class", opt, NoArg, Option_unwrap(opt))
  \/ ValStep("unwrap", "free", opt, NoArg, O_unwrap(opt))

Act_expect ==
  \E msg \in Msgs :
    \/ ValStep("expect", "class", opt, [msg |-> msg], Option_expect(opt, msg))
    \/ ValStep("expect", "free", opt, [msg |-> msg], O_expect(opt, msg))

Act_unwrapOr ==
  \E d \in Values :
    \/ ValStep("unwrapOr", "class", opt, [v |-> d], Option_unwrapOr(opt, d))
    \/ ValStep("unwrapOr", "free", opt, [v |-> d], O_unwrapOr(opt, d))

Act_unwrapOrElse ==
  \E f \in Fns \ {[fn |-> "id"]} :
    \/ ValStep("unwrapOrElse", "class", opt, [f |-> f],
               Option_unwrapOrElse(opt, f))
    \/ ValStep("unwrapOrElse", "free", opt, [f |-> f], O_unwrapOrElse(opt, f))

Act_Ok ==
  \E v \in Values :
    \/ ResStep("Ok", "class", Option_None, [v |-> v], Return(Result_Ok(v)))
    \/ ResStep("Ok", "free", Option_None, [v |-> v], Return(R_Ok(v)))

Act_Err ==
  \E e \in Values :
    \/ ResStep("Err", "class", Option_None, [v |-> e], Return(Result_Err(e)))
    \/ ResStep("Err", "free", Option_None, [v |-> e], Return(R_Err(e)))

Act_Result_from ==
  \E f \in Thunks :
    \/ ResStep("Result.from", "class", Option_None, [f |-> f], Result_from(f))
    \/ ResStep("Result.from", "free", Option_None, [f |-> f], R_into(f))

Act_Result_ok ==
  \/ OptStep("ok", "class", res, NoArg, Result_ok(res))
  \/ OptStep("ok", "free", res, NoArg, R_ok(res))

Act_Result_err == OptStep("err", "class", res, NoArg, Result_err(res))

Act_Result_unwrapOr ==
  \E d \in Values :
    \/ ValStep("Result.unwrapOr", "class", res, [v |-> d],
               Result_unwrapOr(res, d))
    \/ ValStep("Result.unwrapOr", "free", res, [v |-> d], R_unwrapOr(res, d))

\* r.ok().unwrapOr(d)
Act_ok_unwrapOr ==
  \E d \in Values :
    \/ ValStep("ok.unwrapOr", "class", res, [v |-> d],
               Option_unwrapOr(Result_ok(res).value, d))
    \/ ValStep("ok.unwrapOr", "free", res, [v |-> d],
               O_unwrapOr(R_ok(res).value, d))

Act_Result_unwrap ==
  \/ ValStep("Result.unwrap", "class", res, NoArg, Result_unwrap(res))
  \/ ValStep("Result.unwrap", "free", res, NoArg, R_unwrap(res))

Act_Result_unwrapErr ==
  \/ ValStep("Result.unwrapErr", "class", res, NoArg, Result_unwrapErr(res))
  \/ ValStep("Result.unwrapErr", "free", res, NoArg, R_unwrapErr(res))

AlgebraInit ==
  /\ heap = <<>>
  /\ calls = <<>>
  /\ opt = Option_None
  /\ res = Result_Ok(Undefined)
  /\ last = NoOp

AlgebraNext ==
  \/ Act_from \/ Act_Some \/ Act_None \/ Act_filter \/ Act_map
  \/ Act_andThen \/ Act_and \/ Act_or \/ Act_orElse \/ Act_xor
  \/ Act_unwrap \/ Act_expect \/ Act_unwrapOr \/ Act_unwrapOrElse
  \/ Act_Ok \/ Act_Err \/ Act_Result_ok \/ Act_Result_err
  \/ Act_Result_unwrap \/ Act_Result_unwrapErr
  \/ Act_Result_unwrapOr \/ Act_ok_unwrapOr
  \/ Act_map_map \/ Act_Result_from

AlgebraSpec == AlgebraInit /\ [][AlgebraNext]_vars

(***************************************************************************)
(* The caller of the parsers: the parsers it builds, the inputs it has,    *)
(* and what it keeps of each invocation.                                   *)
(***************************************************************************)
string(opts) == [k |-> "string", opts |-> opts]
number(opts) == [k |-> "number", opts |-> opts]
boolean == [k |-> "boolean"]
date(opts) == [k |-> "date", opts |-> opts]
optional(parser) == [k |-> "optional", p |-> parser]
defaulted(parser, def) == [k |-> "defaulted", def |-> def, p |-> parser]
maybe(parser) == [k |-> "maybe", p |-> parser]
array(parser) == [k |-> "array", p |-> parser]
object(shape) == [k |-> "object", shape |-> shape]
record(keyParser, valueParser) ==
  [k |-> "record", kp |-> keyParser, vp |-> valueParser]
chain(parser, fns) == [k |-> "chain", p |-> parser, fns |-> fns]
map(parser, f) == [k |-> "map", f |-> f, p |-> parser]
enums(en) == [k |-> "enums", en |-> en]
intersection(structs) == [k |-> "intersection", ps |-> structs]
literal(constant) == [k |-> "literal", c |-> constant]
tuple(parsers) == [k |-> "tuple", ps |-> parsers]
union(parsers) == [k |-> "union", ps |-> parsers]
unknown == [k |-> "unknown"]

Plain == [coerce |-> FALSE]
Coerce == [coerce |-> TRUE]

\* object({a: array(number())}) and its input {a: [1, "x"]}
ObjOfArr == object(<<Prop("a", array(number(Plain)))>>)
ObjOfArrInput == Obj(<<Prop("a", Arr(<<Num("1"), Str("x")>>))>>)

ObjA == object(<<Prop("a", number(Plain))>>)
ObjB == object(<<Prop("b", string(Plain))>>)
\* (v) => (v === "x" ? Ok(v) : Err(typeErr("email", v)))
CheckX == [fn |-> "check", expected |-> "email", accept |-> {Str("x")}]

\* the object TypeScript makes of enum Role { Admin, User, Guest }: a numeric
\* member gets a property from its value back to its name as well, and
\* Object.values lists those first
Role ==
  <<Prop("0", Str("Admin")), Prop("1", Str("User")), Prop("2", Str("Guest")),
    Prop("Admin", Num("0")), Prop("User", Num("1")), Prop("Guest", Num("2"))>>

Primitives ==
  {string(Plain), string(Coerce), number(Plain), number(Coerce), boolean,
   date(Plain), date(Coerce), unknown, literal(Num("1")),
   enums(<<Prop("A", Str("a")), Prop("B", Str("x"))>>), enums(Role)}

\* array, object, record and tuple over parsers that do not convert
Structural ==
  {array(number(Plain)), ObjOfArr,
   object(<<Prop("a", number(Plain)), Prop("b", string(Plain))>>),
   record(string(Plain), number(Plain)),
   record(literal(Str("a")), array(number(Plain))),
   tuple(<<number(Plain), string(Plain)>>),
   tuple(<<array(number(Plain)), ObjA>>),
   array(array(number(Plain))), array(ObjA)}

Wrapping ==
  {optional(number(Plain)), defaulted(number(Plain), Num("0")),
   maybe(string(Plain)), maybe(number(Coerce)),
   chain(string(Plain), <<[fn |-> "const", ret |-> Str("x")]>>),
   chain(string(Coerce), <<Concat("a"), Concat("b")>>),
   chain(number(Plain), <<>>),
   map(string(Coerce), CheckX),
   union(<<string(Plain), number(Plain)>>),
   intersection(<<ObjA, ObjB>>)}

\* a failure under union, intersection, optional, defaulted, maybe, chain, map
Mixed ==
  {union(<<array(number(Plain)), array(string(Plain))>>),
   array(union(<<ObjA, string(Plain)>>)),
   array(intersection(<<ObjA, ObjB>>)),
   array(optional(number(Plain))),
   object(<<Prop("a", defaulted(array(number(Plain)), Arr(<<>>)))>>),
   array(maybe(ObjA)),
   tuple(<<chain(number(Plain), <<[fn |-> "id"]>>), map(unknown, CheckX)>>),
   record(chain(string(Plain), <<[fn |-> "const", ret |-> Str("x")]>>),
          number(Plain)),
   tuple(<<unknown, optional(number(Plain))>>),
   union(<<number(Plain), unknown, string(Plain)>>),
   intersection(<<object(<<Prop("a", number(Coerce))>>),
                  object(<<Prop("a", string(Coerce)),
                           Prop("b", string(Plain))>>)>>),
   array(number(Coerce))}

Parsers == Primitives \cup Structural \cup Wrapping \cup Mixed

Inputs ==
  {Undefined, Null, Num("1"), Num("42"), NaN, Infinity, Num("-Infinity"),
   Str("x"), Str("123"), Str("Admin"),
   Bool("true"), Sym, DateV("0"), DateV("NaN"),
   Arr(<<>>), Arr(<<Num("1"), Str("x")>>), Arr(<<Num("1"), Num("2"), Str("3")>>),
   Arr(<<Arr(<<Num("1"), Str("x")>>)>>), Arr(<<Obj(<<Prop("a", Str("x"))>>)>>),
   Arr(<<Num("1"), Sym>>), Arr(<<Num("10"), Str("hi"), Str("extra")>>),
   ObjOfArrInput,
   Obj(<<Prop("a", Num("1")), Prop("b", Str("x")), Prop("c", Bool("true"))>>),
   Obj(<<Prop("a", Str("bad")), Prop("b", Str("x"))>>),
   Obj(<<Prop("a", Num("1")), Prop("k", Num("2"))>>),
   Obj(<<Prop("b", Num("1")), Prop("a", Arr(<<Str("x")>>))>>),
   BareObj(<<>>)}

\* what the caller keeps of an invocation of p on input, made on the heap h:
\* what it returned (or raised), the error returned as it is when the
\* invocation returns (err), the errors the structural parsers were handed,
\* each with its path then and its path when the invocation returns (log),
\* and the errors the invocation created (made)
Invocation(p, input, legacy, h) ==
  LET run == Parse(p, input, <<>>,
                   [heap |-> h, legacy |-> legacy, log |-> <<>>,
                    seen |-> <<>>])
      failed == ~run.out.threw /\ Result_isErr(run.out.value)
      returned == IF failed THEN run.st.heap[run.out.value.error.ref]
                  ELSE NoArg
  IN [heap |-> run.st.heap, input |-> input, err |-> returned,
      legacy |-> legacy, out |-> run.out,
      log |-> [i \in 1..Len(run.st.log) |->
                 [ref |-> run.st.log[i].ref, path |-> run.st.log[i].path,
                  final |-> run.st.heap[run.st.log[i].ref].path]],
      p |-> p,
      seen |-> run.st.seen,
      made |-> SubSeq(run.st.heap, Len(h) + 1, Len(run.st.heap))]

\* The errors an invocation created are reachable from its result only, which
\* the caller has in full in its record: the heap keeps the objects that were
\* there before, as the invocation left them.
Collect(call, h) == SubSeq(call.heap, 1, Len(h))

Record(call) == [x \in DOMAIN call \ {"heap"} |-> call[x]]

\* one invocation of a parser of the library, by a caller that holds no
\* result of an earlier one
Act_parse ==
  /\ calls = <<>> /\ last = NoOp
  /\ \E p \in Parsers, input \in Inputs, legacy \in BOOLEAN :
       LET call == Invocation(p, input, legacy, heap)
       IN /\ calls' = <<Record(call)>>
          /\ heap' = Collect(call, heap)
  /\ UNCHANGED <<opt, res, last>>

\* the texts given to parseJson: six of the JSON grammar and three not
Texts ==
  {"null", "10", "\"x\"", "[1,\"x\"]", "{\"a\":1}", "{\"toString\":1}",
   "", "{", "undefined"}

\* what the caller keeps of a call of parseJson(json, p): what it returned
\* or raised, the ParseError returned if one was (err), the applications
\* made (seen)
JsonCall(json, p, legacy, h) ==
  LET run == parseJson(json, p,
                       [heap |-> h, legacy |-> legacy, log |-> <<>>,
                        seen |-> <<>>])
      failed == /\ ~run.out.threw /\ Result_isErr(run.out.value)
                /\ run.out.value.error.t = "ParseError"
      returned == IF failed THEN run.st.heap[run.out.value.error.ref]
                  ELSE NoArg
  IN [err |-> returned, json |-> json, legacy |-> legacy, out |-> run.out,
      p |-> p, seen |-> run.st.seen]

\* one call of parseJson, by a caller that holds no earlier result
Act_parseJson ==
  /\ calls = <<>> /\ last = NoOp
  /\ \E json \in Texts, p \in Parsers, legacy \in BOOLEAN :
       LET call == JsonCall(json, p, legacy, heap)
       IN last' = [self |-> Option_None, out |-> call.out, op |-> "parseJson",
                   impl |-> "", arg |-> call]
  /\ UNCHANGED <<heap, calls, opt, res>>

\* the caller drops the results it holds
Act_forget ==
  /\ calls # <<>> \/ last # NoOp
  /\ calls' = <<>>
  /\ last' = NoOp
  /\ UNCHANGED <<heap, opt, res>>

Init ==
  /\ heap = <<>>
  /\ calls = <<>>
  /\ opt = Option_None
  /\ res = Result_Ok(Undefined)
  /\ last = NoOp

Next == Act_parse \/ Act_forget

Spec == Init /\ [][Next]_vars

JsonNext == Act_parseJson \/ Act_forget

\* the callers of parseJson
JsonSpec == Init /\ [][JsonNext]_vars

(***************************************************************************)
(* A caller with a pure parser of its own, Ok on the number 1 and on every *)
(* other input the same Err(bad), bad being a ParseError it made once.  It *)
(* puts that parser under the library's combinators and invokes the        *)
(* results again and again, keeping every result.                          *)
(***************************************************************************)
MaxCalls == 2

Bad ==
  [input |-> Undefined, message |-> "bad", expected |-> "one",
   actual |-> "other", path |-> <<>>, origin |-> "user", site |-> <<>>]

Own == [k |-> "user", ref |-> 1, name |-> "own", accept |-> {Num("1")}]

RepeatParsers ==
  {Own, array(Own), object(<<Prop("a", Own)>>), record(string(Plain), Own),
   tuple(<<Own, Own>>), array(number(Plain)), union(<<Own, string(Plain)>>)}

RepeatInputs ==
  {Num("1"), Str("x"), Arr(<<Num("1"), Str("x")>>),
   Obj(<<Prop("a", Str("x"))>>)}

Act_again ==
  /\ Len(calls) < MaxCalls
  /\ \E p \in RepeatParsers, input \in RepeatInputs :
       LET call == Invocation(p, input, FALSE, heap)
       IN /\ calls' = Append(calls, Record(call))
          /\ heap' = Collect(call, heap)
  /\ UNCHANGED <<opt, res, last>>

RepeatInit ==
  /\ heap = <<Bad>>
  /\ calls = <<>>
  /\ opt = Option_None
  /\ res = Result_Ok(Undefined)
  /\ last = NoOp

RepeatNext == Act_again

RepeatSpec == RepeatInit /\ [][RepeatNext]_vars

(***************************************************************************)
(* Result.fromAsync and intoAsync.  The heap holds promise objects: a      *)
(* promise is pending, fulfilled or rejected, with the value or reason it  *)
(* settled with; one made by then or catch names the promise it was called *)
(* on (src) and which of the two made it (on), and is settled by a job of  *)
(* the engine once that promise has settled.  The caller makes up to       *)
(* MaxAsync calls, which run concurrently.                                 *)
(***************************************************************************)
MaxAsync == 2

\* a promise of the caller's: new Promise(...), Promise.resolve(v),
\* Promise.reject(r)
Promise(state, value) ==
  [value |-> value, state |-> state, src |-> 0, on |-> "none"]

\* promise.then(onFulfilled) and promise.catch(onRejected): a new promise
PromiseOn(src, on) ==
  [value |-> Undefined, state |-> "pending", src |-> src, on |-> on]

\* the job of a catch whose handler hands the rejection on
Settle_passing(d, s) == [d EXCEPT !.state = s.state, !.value = s.value]

\* the job that settles a promise made by then(Ok) or by catch(Err), from
\* the settled promise s it was made on
Settle(d, s) ==
  IF d.on = "then"
  THEN IF s.state = "fulfilled"
       THEN [d EXCEPT !.state = "fulfilled", !.value = Result_Ok(s.value)]
       ELSE [d EXCEPT !.state = "rejected", !.value = s.value]
  ELSE IF s.state = "rejected"
       THEN [d EXCEPT !.state = "fulfilled", !.value = Result_Err(s.value)]
       ELSE [d EXCEPT !.state = "fulfilled", !.value = s.value]

\* promise.then(Ok).catch((err) => Err(err)) on the promise at p of heap h
ThenCatch(h, p) ==
  LET h1 == Append(h, PromiseOn(p, "then"))
      h2 == Append(h1, PromiseOn(Len(h1), "catch"))
  IN [heap |-> h2, ret |-> Len(h2), und |-> p]

\* the function a raises when it is called: [k |-> "fn", raises |-> e]
Raises(a) == "raises" \in DOMAIN a

\* the call promise() raised e, and nothing is there to catch it: no promise
\* is returned
Escaped(h, e) == [heap |-> h, ret |-> 0, out |-> Raise(e), und |-> 0]

\* a is a promise of the heap, [k |-> "promise", ref |-> p], or a function
\* that returns a new promise, [k |-> "fn", makes |-> q], or one that raises
Result_fromAsync(h, a) ==
  IF a.k = "fn"
  THEN IF Raises(a) THEN Escaped(h, a.raises)
       ELSE LET h1 == Append(h, a.makes) IN ThenCatch(h1, Len(h1))
  ELSE ThenCatch(h, a.ref)

R_intoAsync(h, a) ==
  IF a.k = "fn"
  THEN IF Raises(a) THEN Escaped(h, a.raises)
       ELSE LET h1 == Append(h, a.makes) IN ThenCatch(h1, Len(h1))
  ELSE ThenCatch(h, a.ref)

\* the promises a caller's function returns
Made ==
  {Promise("pending", Undefined), Promise("rejected", Str("foo bar")),
   Promise("fulfilled", Num("69"))}

\* the caller makes a promise, which it may give to several calls
Act_promise ==
  /\ heap = <<>>
  /\ \E q \in Made : heap' = Append(heap, q)
  /\ UNCHANGED <<calls, opt, res, last>>

Act_fromAsync ==
  /\ Len(calls) < MaxAsync
  /\ \E impl \in {"class", "free"} :
       \E a \in {[k |-> "fn", makes |-> q] : q \in Made} \cup
                {[k |-> "promise", ref |-> p] :
                   p \in {i \in 1..Len(heap) : heap[i].src = 0}} :
         LET c == IF impl = "class" THEN Result_fromAsync(heap, a)
                  ELSE R_intoAsync(heap, a)
         IN /\ heap' = c.heap
            /\ calls' = Append(calls, [ret |-> c.ret, impl |-> impl,
                                       und |-> c.und])
  /\ UNCHANGED <<opt, res, last>>

\* a pending promise of the caller's settles
Act_settle ==
  /\ \E i \in 1..Len(heap) :
       /\ heap[i].src = 0 /\ heap[i].state = "pending"
       /\ \E q \in Made \ {Promise("pending", Undefined)} :
            heap' = [heap EXCEPT ![i] = q]
  /\ UNCHANGED <<calls, opt, res, last>>

\* the engine runs the job of a promise whose source has settled
Act_job ==
  /\ \E i \in 1..Len(heap) :
       /\ heap[i].src # 0 /\ heap[i].state = "pending"
       /\ heap[heap[i].src].state # "pending"
       /\ heap' = [heap EXCEPT ![i] = Settle(heap[i], heap[heap[i].src])]
  /\ UNCHANGED <<calls, opt, res, last>>

AsyncInit ==
  /\ heap = <<>>
  /\ calls = <<>>
  /\ opt = Option_None
  /\ res = Result_Ok(Undefined)
  /\ last = NoOp

AsyncNext == Act_promise \/ Act_fromAsync \/ Act_settle \/ Act_job

\* the engine runs every job that is ready
AsyncSpec == AsyncInit /\ [][AsyncNext]_vars /\ WF_vars(Act_job)

\* the errors a caller's function raises before it returns a promise
Raised == {Str("foo bar"), Undefined}

\* the caller gives fromAsync or intoAsync a function that raises
Act_fromAsync_raising ==
  /\ \E impl \in {"class", "free"} :
       \E a \in {[k |-> "fn", raises |-> e] : e \in Raised} :
         LET c == IF impl = "class" THEN Result_fromAsync(heap, a)
                  ELSE R_intoAsync(heap, a)
         IN /\ heap' = c.heap
            /\ last' = [self |-> Option_None, out |-> c.out,
                        op |-> "fromAsync", impl |-> impl, arg |-> a]
  /\ UNCHANGED <<calls, opt, res>>

ProducerNext == AsyncNext \/ Act_fromAsync_raising

\* the callers of AsyncSpec, and those whose function raises
ProducerSpec == AsyncInit /\ [][ProducerNext]_vars /\ WF_vars(Act_job)

(***************************************************************************)
(* array.ts: the List class.  A list is an object of the heap that holds   *)
(* its array, arr; was is a ghost, the array the list was created with.    *)
(* A method gives Done(this, out): the array it leaves in this.#arr, and   *)
(* what it returns, a new list or an Option.                               *)
(***************************************************************************)
isPositive(num) == num > 0

isNegative(num) == ~isPositive(num)

\* what a condition makes of a value
ToBoolean(v) ==
  v \notin {Undefined, Null, Bool("false"), Num("0"), NaN, Str("")}

\* new List(arr)
NewList(arr) == [t |-> "List", arr |-> arr]

Done(this, out) == [out |-> out, this |-> this]

List_empty == NewList(<<>>)

List_from(iter) == NewList(iter)

List_append(this, values) == Done(this, NewList(this \o values))

List_prepend(this, values) == Done(this, NewList(values \o this))

List_compact(this) == Done(this, NewList(SelectSeq(this, isPresent)))

List_drop(this, n) ==
  IF isNegative(n) THEN Done(this, List_empty)
  ELSE Done(this, NewList(Slice(this, n, Len(this))))

List_dropWhile(this, f) == List_drop(this, Leading(this, f))

List_at(this, index) ==
  LET i == getIndex(Len(this), index)
  IN IF i < 0 \/ i >= Len(this) THEN Done(this, Option_None)
     ELSE Done(this, Option_Some(Elem(this, i)))

List_first(this) == List_at(this, 0)

List_last(this) == List_at(this, Len(this) - 1)

\* this.#arr.reverse() reverses the list's own array
List_reverse(this) == Done(Reversed(this), NewList(Reversed(this)))

List_take(this, n) ==
  IF isNegative(n) THEN Done(this, List_empty)
  ELSE Done(this, NewList(Slice(this, 0, n)))

List_takeWhile(this, f) ==
  Done(this, NewList(SubSeq(this, 1, Leading(this, f))))

List_uniq(this) == Done(this, List_from(Distinct(this)))

List_find(this, f) ==
  LET found == Elem(this, FindIndex(this, f))
  IN Done(this, IF ToBoolean(found) THEN Option_Some(found) ELSE Option_None)

List_findIndex(this, f) ==
  LET index == FindIndex(this, f)
  IN Done(this, IF isNegative(index) THEN Option_None
                ELSE Option_Some(Number(index)))

List_insert(this, value, at) ==
  Done(this, NewList(Splice(this, getIndex(Len(this), at), 0, <<value>>)))

List_move(this, from, to) ==
  LET f == getIndex(Len(this), from)
      t == getIndex(Len(this), to)
      item == Elem(this, Relative(Len(this), f))
  IN Done(this, NewList(Splice(Splice(this, f, 1, <<>>), t, 0, <<item>>)))

List_remove(this, at) ==
  Done(this, NewList(Splice(this, getIndex(Len(this), at), 1, <<>>)))

List_swap(this, a, b) ==
  LET x == getIndex(Len(this), a)
      y == getIndex(Len(this), b)
      temp == Elem(this, x)
  IN Done(this, NewList(SetElem(SetElem(this, x, Elem(this, y)), y, temp)))

\* Array.from(this), for a list or for what a method returned
toArray(list) == list.arr

(***************************************************************************)
(* The caller of List: it makes lists from arrays and calls their methods. *)
(* last keeps the call: the list it was made on, the array that list held  *)
(* before the call (on), what the method returned (out) and what the array *)
(* module's function of the same name gives for that array (same).         *)
(***************************************************************************)
MaxLists == 2

ListArrays ==
  {<<>>, <<Num("1"), Num("2"), Num("1")>>,
   <<Num("0"), Str(""), Bool("false")>>, <<Undefined, Null, Num("1")>>}

\* the indices and counts the caller passes
Ints == -1..3

\* the second index of a call that takes two
Seconds == {-1, 1}

\* the predicates the caller passes, as the sets of the values they accept
ListPreds ==
  {{}, {Num("1")}, {Num("0"), Str(""), Num("2")}, Values \cup {Num("1")}}

isList(out) == "t" \in DOMAIN out /\ out.t = "List"

\* the heap after a call on list i: the list's array is what the method left,
\* and a list it returned is a new object, kept while there is room
Stored(i, done) ==
  LET h1 == [heap EXCEPT ![i].arr = done.this]
  IN IF isList(done.out) /\ Len(heap) < MaxLists
     THEN Append(h1, [arr |-> done.out.arr, was |-> done.out.arr])
     ELSE h1

ListStep(op, i, arg, done, same) ==
  /\ heap' = Stored(i, done)
  /\ last' = [self |-> [ref |-> i], out |-> done.out, op |-> op,
              impl |-> "List", arg |-> arg, on |-> heap[i].arr, same |-> same]
  /\ UNCHANGED <<calls, opt, res>>

Lists == 1..Len(heap)

Act_List_from ==
  /\ Len(heap) < MaxLists
  /\ \E iter \in ListArrays :
       /\ heap' = Append(heap, [arr |-> List_from(iter).arr, was |-> iter])
       /\ last' = [self |-> [ref |-> Len(heap) + 1], out |-> List_from(iter),
                   op |-> "from", impl |-> "List", arg |-> [iter |-> iter],
                   on |-> iter, same |-> iter]
  /\ UNCHANGED <<calls, opt, res>>

Act_List_append ==
  \E i \in Lists : \E v \in {Num("69")} :
    ListStep("append", i, [v |-> v], List_append(heap[i].arr, <<v>>),
             heap[i].arr \o <<v>>)

Act_List_prepend ==
  \E i \in Lists : \E v \in {Num("69")} :
    ListStep("prepend", i, [v |-> v], List_prepend(heap[i].arr, <<v>>),
             <<v>> \o heap[i].arr)

Act_List_compact ==
  \E i \in Lists :
    ListStep("compact", i, NoArg, List_compact(heap[i].arr),
             A_compact(heap[i].arr))

Act_List_drop ==
  \E i \in Lists : \E n \in Ints :
    ListStep("drop", i, [n |-> n], List_drop(heap[i].arr, n),
             A_drop(heap[i].arr, n))

Act_List_dropWhile ==
  \E i \in Lists : \E f \in ListPreds :
    ListStep("dropWhile", i, [f |-> f], List_dropWhile(heap[i].arr, f),
             A_dropWhile(heap[i].arr, f))

Act_List_at ==
  \E i \in Lists : \E n \in Ints :
    ListStep("at", i, [n |-> n], List_at(heap[i].arr, n), A_at(heap[i].arr, n))

Act_List_first ==
  \E i \in Lists :
    ListStep("first", i, NoArg, List_first(heap[i].arr), A_first(heap[i].arr))

Act_List_last ==
  \E i \in Lists :
    ListStep("last", i, NoArg, List_last(heap[i].arr), A_last(heap[i].arr))

Act_List_reverse ==
  \E i \in Lists :
    ListStep("reverse", i, NoArg, List_reverse(heap[i].arr),
             A_reverse(heap[i].arr))

Act_List_take ==
  \E i \in Lists : \E n \in Ints :
    ListStep("take", i, [n |-> n], List_take(heap[i].arr, n),
             A_take(heap[i].arr, n))

Act_List_takeWhile ==
  \E i \in Lists : \E f \in ListPreds :
    ListStep("takeWhile", i, [f |-> f], List_takeWhile(heap[i].arr, f),
             A_takeWhile(heap[i].arr, f))

Act_List_uniq ==
  \E i \in Lists :
    ListStep("uniq", i, NoArg, List_uniq(heap[i].arr), A_uniq(heap[i].arr))

Act_List_find ==
  \E i \in Lists : \E f \in ListPreds :
    ListStep("find", i, [f |-> f], List_find(heap[i].arr, f),
             A_find(heap[i].arr, f))

Act_List_findIndex ==
  \E i \in Lists : \E f \in ListPreds :
    ListStep("findIndex", i, [f |-> f], List_findIndex(heap[i].arr, f),
             A_findIndex(heap[i].arr, f))

Act_List_insert ==
  \E i \in Lists : \E v \in {Num("69")} : \E at \in Seconds \cup {3} :
    ListStep("insert", i, [v |-> v, at |-> at],
             List_insert(heap[i].arr, v, at), A_insert(heap[i].arr, v, at))

Act_List_move ==
  \E i \in Lists : \E from \in Ints : \E to \in Seconds :
    ListStep("move", i, [from |-> from, to |-> to],
             List_move(heap[i].arr, from, to), A_move(heap[i].arr, from, to))

Act_List_remove ==
  \E i \in Lists : \E at \in Ints :
    ListStep("remove", i, [at |-> at], List_remove(heap[i].arr, at),
             A_remove(heap[i].arr, at))

Act_List_swap ==
  \E i \in Lists : \E a \in Ints : \E b \in Seconds :
    ListStep("swap", i, [a |-> a, b |-> b], List_swap(heap[i].arr, a, b),
             A_swap(heap[i].arr, a, b))

ListInit ==
  /\ heap = <<>>
  /\ calls = <<>>
  /\ opt = Option_None
  /\ res = Result_Ok(Undefined)
  /\ last = NoOp

ListNext ==
  \/ Act_List_from \/ Act_List_append \/ Act_List_prepend \/ Act_List_compact
  \/ Act_List_drop \/ Act_List_dropWhile \/ Act_List_at \/ Act_List_first
  \/ Act_List_last \/ Act_List_reverse \/ Act_List_take \/ Act_List_takeWhile
  \/ Act_List_uniq \/ Act_List_find \/ Act_List_findIndex \/ Act_List_insert
  \/ Act_List_move \/ Act_List_remove \/ Act_List_swap

ListSpec == ListInit /\ [][ListNext]_vars

(***************************************************************************)
(* array.ts: the loops of zip, chunk and List.range, one iteration a step.  *)
(* last is the running call: its arguments, the loop's variable i, the     *)
(* array built so far (out) and whether the call has returned (done).      *)
(***************************************************************************)
\* the most elements a caller lets a call build before it gives the call up
MaxSteps == 3

\* Math.min(...lens): Infinity when it is given no number
MathMin(lens) ==
  IF lens = {} THEN [n |-> 0, inf |-> TRUE]
  ELSE [n |-> CHOOSE m \in lens : \A k \in lens : m <= k, inf |-> FALSE]

\* i < len
Below(i, len) == len.inf \/ i < len.n

Frame(op, arg, i, out, done) ==
  [i |-> i, self |-> Option_None, out |-> out, op |-> op, impl |-> "",
   arg |-> arg, done |-> done]

Running(op) == last.op = op /\ ~last.done

ThenOnly(frame) == last' = frame /\ UNCHANGED <<heap, calls, opt, res>>

\* the argument lists of zip
ZipArgs ==
  {<<>>, <<<<>>>>, <<<<Num("1"), Num("2")>>>>,
   <<<<Num("1"), Num("2")>>, <<Str("a")>>>>,
   <<<<Num("1"), Num("2")>>, <<Str("a"), Str("b")>>>>}

\* zip(...arrs) up to its loop
Act_zip ==
  /\ last = NoOp
  /\ \E arrs \in ZipArgs :
       ThenOnly(Frame("zip",
                      [len |-> MathMin({Len(arrs[j]) : j \in 1..Len(arrs)}),
                       arrs |-> arrs],
                      0, <<>>, FALSE))

\* one turn of zip's loop, or its end and the return
Act_zip_step ==
  /\ Running("zip")
  /\ IF Below(last.i, last.arg.len)
     THEN /\ Len(last.out) < MaxSteps
          /\ LET arrs == last.arg.arrs
                 row == [j \in 1..Len(arrs) |-> Elem(arrs[j], last.i)]
             IN ThenOnly(Frame("zip", last.arg, last.i + 1,
                               Append(last.out, row), FALSE))
     ELSE ThenOnly(Frame("zip", last.arg, last.i, last.out, TRUE))

\* the numbers the caller gives List.range and chunk
Froms == {-1, 0, 1}
Tos == {0, 2}
Sizes == -1..2

\* List.range(from, to, step) up to its loop
Act_range ==
  /\ last = NoOp
  /\ \E from \in Froms : \E to \in Tos : \E step \in Sizes :
       ThenOnly(Frame("range", [from |-> from, to |-> to, step |-> step],
                      from, <<>>, FALSE))

\* one turn of the loop of List.range, or its end and the return
Act_range_step ==
  /\ Running("range")
  /\ IF last.i < last.arg.to
     THEN /\ Len(last.out) < MaxSteps
          /\ ThenOnly(Frame("range", last.arg, last.i + last.arg.step,
                            Append(last.out, last.i), FALSE))
     ELSE ThenOnly(Frame("range", last.arg, last.i, last.out, TRUE))

\* chunk(arr, size) up to its loop: it returns at once for a size <= 0
Act_chunk ==
  /\ last = NoOp
  /\ \E arr \in ListArrays : \E size \in Sizes :
       ThenOnly(Frame("chunk", [arr |-> arr, size |-> size], 0, <<>>,
                      size <= 0))

\* one turn of chunk's loop, or its end and the return
Act_chunk_step ==
  /\ Running("chunk")
  /\ IF last.i < Len(last.arg.arr)
     THEN /\ Len(last.out) < MaxSteps
          /\ ThenOnly(Frame("chunk", last.arg, last.i + last.arg.size,
                            Append(last.out,
                                   Slice(last.arg.arr, last.i,
                                         last.i + last.arg.size)),
                            FALSE))
     ELSE ThenOnly(Frame("chunk", last.arg, last.i, last.out, TRUE))

\* the caller has the result and goes on to another call
Act_returned ==
  /\ last # NoOp /\ last.done
  /\ ThenOnly(NoOp)

LoopInit ==
  /\ heap = <<>>
  /\ calls = <<>>
  /\ opt = Option_None
  /\ res = Result_Ok(Undefined)
  /\ last = NoOp

LoopNext ==
  \/ Act_zip \/ Act_zip_step \/ Act_range \/ Act_range_step
  \/ Act_chunk \/ Act_chunk_step \/ Act_returned

\* a call that is running goes on running: the loops are synchronous code
LoopSpec ==
  /\ LoopInit /\ [][LoopNext]_vars
  /\ WF_vars(Act_zip_step) /\ WF_vars(Act_range_step)
  /\ WF_vars(Act_chunk_step)

(***************************************************************************)
(* The properties of the parsers                                           *)
(***************************************************************************)
\* the invocation came back with an Err
Failed(c) == ~c.out.threw /\ Result_isErr(c.out.value)

\* the index an index string stands for
ParseIndex(s) == CHOOSE i \in 0..4 : IndexString(i) = s

\* the value of the input that a path of keys and indices leads to
RECURSIVE Locate(_, _)
Locate(v, path) ==
  IF path = <<>> THEN v
  ELSE IF isArray(v)
  THEN Locate(At(v.items, ParseIndex(Head(path))), Tail(path))
  ELSE IF isPlainObject(v) THEN Locate(Get(v.props, Head(path)), Tail(path))
  ELSE Undefined

\* C1: invoking a parser built from the library's primitives and
\* combinators, on any input, returns an Ok or an Err and never raises.
C1_NeverThrows == \A i \in 1..Len(calls) : ~calls[i].out.threw

\* C2: when a failure occurs inside nested array, object, record or tuple
\* parsers, the path of the error the root returns lists the locators from
\* the outermost (first) to the innermost (last): it is the sequence of keys
\* and indices descended through to the failure, and following it from the
\* root input leads to the offending value (for a record key that fails, the
\* key itself is the offending value); object({a: array(number())}) on
\* {a: [1, "x"]} yields the path ["a", "1"].
C2_PathOuterToInner ==
  \A i \in 1..Len(calls) :
    LET c == calls[i] IN
      /\ (c.p \in Structural /\ Failed(c)) =>
           /\ c.err.path = c.err.site
           /\ \/ Locate(c.input, c.err.path) = c.err.input
              \/ /\ c.err.path # <<>>
                 /\ c.err.input = Str(c.err.path[Len(c.err.path)])
      /\ (c.p = ObjOfArr /\ c.input = ObjOfArrInput) =>
           Failed(c) /\ c.err.path = <<"a", "1">>

C2_Witness ==
  \E i \in 1..Len(calls) :
    /\ calls[i].p = ObjOfArr /\ calls[i].input = ObjOfArrInput
    /\ Failed(calls[i])
    /\ calls[i].err.path = <<"a", "1">>

\* C3 as it was stated: in every composition, a union above the failure
\* included, the path returned is the full path to a value that failed one of
\* the parsers below, every enclosing key and index in it.
C3_PathReachesFailingValue ==
  \A i \in 1..Len(calls) :
    LET c == calls[i] IN
      Failed(c) =>
        \E j \in 1..Len(c.made) :
          c.made[j].origin # "union" /\ c.made[j].site = c.err.path

\* C3, amended: in every composition of the library's parsers the path of the
\* error returned is the full path, one segment for each enclosing index or
\* key and nothing else, to the place where that error was created; when all
\* the alternatives of a union fail that place is the union's own input, the
\* errors of the alternatives and the locators below the union being dropped.
C3_PathToWhereErrorWasCreated ==
  \A i \in 1..Len(calls) :
    LET c == calls[i] IN
      Failed(c) =>
        /\ c.err.path = c.err.site
        /\ c.err.origin = "union" =>
             \A j \in 1..Len(c.made) :
               /\ Len(c.made[j].site) >= Len(c.err.path)
               /\ SubSeq(c.made[j].site, 1, Len(c.err.path)) = c.err.path

C3_Witness ==
  \E i \in 1..Len(calls) :
    LET c == calls[i] IN
      /\ Failed(c)
      /\ c.err.origin = "union"
      /\ c.err.path # <<>>
      /\ \E j \in 1..Len(c.made) : Len(c.made[j].site) > Len(c.err.path)

\* C4: when array, object, record or tuple propagates a child's failure, the
\* ParseError the child returned, its path included, is the same after the
\* parent returns as when the child returned it, and the parent's error is a
\* distinct value.
C4_ChildErrorUntouched ==
  \A i \in 1..Len(calls) :
    LET c == calls[i] IN
      \A j \in 1..Len(c.log) :
        /\ c.log[j].final = c.log[j].path
        /\ Failed(c) => c.out.value.error.ref # c.log[j].ref

\* what a caller can compare of two results
Observed(c) ==
  [value |-> IF ~c.out.threw /\ Result_isOk(c.out.value)
             THEN c.out.value.value ELSE Undefined,
   threw |-> c.out.threw,
   expected |-> IF Failed(c) THEN c.err.expected ELSE "",
   actual |-> IF Failed(c) THEN c.err.actual ELSE "",
   path |-> IF Failed(c) THEN c.err.path ELSE <<>>,
   variant |-> IF c.out.threw THEN "" ELSE c.out.value.tag]

\* C5: a parser built over pure child parsers, which may return the very same
\* ParseError on each call, returns equal Results whenever it is invoked on
\* the same input, whatever is invoked in between: the same variant, the same
\* value, and for failures the same expected, actual and path.
C5_Repeatable ==
  \A i, j \in 1..Len(calls) :
    (calls[i].p = calls[j].p /\ calls[i].input = calls[j].input) =>
      Observed(calls[i]) = Observed(calls[j])

(***************************************************************************)
(* The properties of Option and Result                                     *)
(***************************************************************************)
\* C6: filter(predicate) on Some(v) is None when predicate(v) is false and
\* Some(v) when it is true; on None it is None and the predicate is not
\* consulted; in the class and in the free function alike.
C6_Filter ==
  last.op = "filter" =>
    /\ ~last.out.threw
    /\ IF last.self.tag = "None"
       THEN last.out.value = Option_None /\ last.out.ncalls = 0
       ELSE IF last.self.value \in last.arg.pred
       THEN last.out.value = Option_Some(last.self.value)
       ELSE last.out.value = Option_None

\* a Some that wraps null or undefined
NilSome(o) == o.tag = "Some" /\ isNil(o.value)

\* the operations that answer with an Option
OptionOps ==
  {"from", "Some", "None", "filter", "map", "andThen", "and", "or", "orElse",
   "xor", "ok", "err"}

\* C7 as it was stated: no Option reachable through the library's operations
\* is a Some whose value is null or undefined.
C7_NoSomeOfNil == ~NilSome(opt)

\* C7, amended: Option.from and into never answer with a Some of null or
\* undefined, and filter, and, or, orElse, xor and andThen answer with one
\* only when it is the Option they were applied to or were handed; Some(v),
\* map(f), Result.ok() and Result.err() wrap the value they are given
\* unchecked, so they answer with a Some of null or undefined exactly when
\* that value is null or undefined.
C7_SomeOfNilOnlyWhenGiven ==
  (last.op \in OptionOps /\ ~last.out.threw /\ NilSome(last.out.value)) =>
    CASE last.op = "Some" -> isNil(last.arg.v)
      [] last.op = "map" ->
           /\ last.self.tag = "Some"
           /\ isNil(Apply(last.arg.f, last.self.value))
      [] last.op = "ok" -> last.self.tag = "Ok" /\ isNil(last.self.value)
      [] last.op = "err" -> last.self.tag = "Err" /\ isNil(last.self.error)
      [] last.op \in {"and", "or", "xor"} ->
           NilSome(last.self) \/ NilSome(last.arg.o)
      [] last.op \in {"andThen", "orElse"} ->
           \/ NilSome(last.self)
           \/ last.arg.f.fn = "const" /\ NilSome(last.arg.f.ret)
      [] last.op = "filter" -> NilSome(last.self)
      [] OTHER -> FALSE

C7_Witness ==
  /\ last.op = "map"
  /\ last.self.tag = "Some" /\ ~isNil(last.self.value)
  /\ ~last.out.threw
  /\ NilSome(last.out.value)
  /\ opt = last.out.value

\* C8: Option.from(v), and the free function into(v), is None if and only if
\* v is null or undefined; for every other v, the falsy 0, "", false and NaN
\* included, it is Some(v), wrapping v itself.
C8_FromIsNoneIffNil ==
  last.op = "from" =>
    /\ ~last.out.threw
    /\ last.out.value = Option_None <=> last.arg.v \in {Null, Undefined}
    /\ last.arg.v \notin {Null, Undefined} =>
         last.out.value = Option_Some(last.arg.v)

C8_Witness ==
  /\ last.op = "from"
  /\ last.impl = "class"
  /\ last.arg.v = NaN
  /\ last.out.value = Option_Some(NaN)

\* C9: unwrap() on None raises an error with the message "called
\* Option.unwrap on a 'None' value" and expect(msg) on None raises one with
\* the message msg; on Some(v) both return v; unwrapOr and unwrapOrElse never
\* raise, and unwrapOrElse calls the fallback on None only.
C9_OptionUnwrap ==
  /\ last.op = "unwrap" =>
       IF last.self.tag = "None"
       THEN /\ last.out.threw
            /\ last.out.message = "called Option.unwrap on a 'None' value"
       ELSE ~last.out.threw /\ last.out.value = last.self.value
  /\ last.op = "expect" =>
       IF last.self.tag = "None"
       THEN last.out.threw /\ last.out.message = last.arg.msg
       ELSE ~last.out.threw /\ last.out.value = last.self.value
  /\ last.op = "unwrapOr" =>
       /\ ~last.out.threw
       /\ last.out.value =
            IF last.self.tag = "Some" THEN last.self.value ELSE last.arg.v
  /\ last.op = "unwrapOrElse" =>
       /\ ~last.out.threw
       /\ last.out.ncalls = IF last.self.tag = "None" THEN 1 ELSE 0
       /\ last.out.value =
            IF last.self.tag = "Some" THEN last.self.value
            ELSE Apply(last.arg.f, Undefined)

C9_Witness ==
  /\ last.op = "unwrap"
  /\ last.impl = "class"
  /\ last.self = Option_None
  /\ last.out.threw

\* C10: Result unwrap() on Err(e) raises an error with the message "called
\* Result.unwrap on an 'Err' value" and on Ok(v) returns v; unwrapErr() on
\* Ok raises and on Err(e) returns e; in the class and in the free functions
\* alike.
C10_ResultUnwrap ==
  /\ last.op = "Result.unwrap" =>
       IF last.self.tag = "Err"
       THEN /\ last.out.threw
            /\ last.out.message = "called Result.unwrap on an 'Err' value"
       ELSE ~last.out.threw /\ last.out.value = last.self.value
  /\ last.op = "Result.unwrapErr" =>
       IF last.self.tag = "Ok"
       THEN last.out.threw
       ELSE ~last.out.threw /\ last.out.value = last.self.error

\* C11: r.ok() is Some, of r's value, exactly when r is Ok, and None when r
\* is Err, the error being discarded; r.ok().unwrapOr(x) equals
\* r.unwrapOr(x) for every x.
C11_OkAgreesWithUnwrapOr ==
  /\ last.op = "ok" =>
       /\ ~last.out.threw
       /\ last.out.value.tag = "Some" <=> last.self.tag = "Ok"
       /\ last.self.tag = "Ok" => last.out.value = Option_Some(last.self.value)
       /\ last.self.tag = "Err" => last.out.value = Option_None
  /\ last.op = "ok.unwrapOr" =>
       last.out = IF last.impl = "class"
                  THEN Result_unwrapOr(last.self, last.arg.v)
                  ELSE R_unwrapOr(last.self, last.arg.v)

C11_Witness ==
  /\ last.op = "ok.unwrapOr"
  /\ last.impl = "class"
  /\ last.self.tag = "Err"
  /\ last.arg.v # last.self.error
  /\ last.out.value = last.arg.v

\* C12: o.map(f).map(g) equals o.map(x => g(f(x))) for every Option o and
\* all functions f and g; map on None returns None without calling the
\* function, and map on Some(v) returns Some(f(v)).
C12_MapIsAFunctor ==
  /\ last.op = "map.map" =>
       /\ ~last.out.threw
       /\ last.out.value =
            IF last.impl = "class"
            THEN Option_map(last.self, Compose(last.arg.f, last.arg.g)).value
            ELSE O_map(last.self, Compose(last.arg.f, last.arg.g)).value
  /\ last.op = "map" =>
       /\ ~last.out.threw
       /\ IF last.self.tag = "None"
          THEN last.out.value = Option_None /\ last.out.ncalls = 0
          ELSE /\ last.out.value =
                    Option_Some(Apply(last.arg.f, last.self.value))
               /\ last.out.ncalls = 1

C12_Witness ==
  /\ last.op = "map.map"
  /\ last.impl = "class"
  /\ last.self = Option_Some(Num("69"))
  /\ last.arg.f = [fn |-> "const", ret |-> Null]
  /\ last.arg.g = [fn |-> "typeof"]
  /\ last.out.value = Option_Some(Str("null"))

\* C13: Result.from(fn), and the free function into(fn), calls fn exactly
\* once and never raises: it is Ok(v) if fn returns v, and Err(e), e being
\* the very value raised, if fn raises e.
C13_FromCatches ==
  last.op = "Result.from" =>
    /\ ~last.out.threw
    /\ last.out.ncalls = 1
    /\ last.arg.f.fn = "throw" => last.out.value = Result_Err(last.arg.f.err)
    /\ last.arg.f.fn = "const" => last.out.value = Result_Ok(last.arg.f.ret)

C13_Witness ==
  /\ last.op = "Result.from"
  /\ last.impl = "class"
  /\ last.arg.f.fn = "throw"
  /\ last.out.value = Result_Err(Str("foo bar"))
  /\ res = last.out.value

\* C14: the promise fromAsync / intoAsync returns settles exactly once and
\* only by fulfilment, with Ok(value) if the promise it was given (or the
\* one the function it was given returned) fulfils with value and with
\* Err(reason) if that one rejects with reason, whatever the other calls
\* running at the same time do.
C14_FromAsyncFulfils ==
  /\ [](\A n \in 1..Len(calls) :
          LET r == heap[calls[n].ret]
              u == heap[calls[n].und]
          IN /\ r.state # "rejected"
             /\ r.state = "fulfilled" =>
                  /\ u.state = "fulfilled" => r.value = Result_Ok(u.value)
                  /\ u.state = "rejected" => r.value = Result_Err(u.value)
                  /\ u.state # "pending")
  /\ [][\A i \in 1..Len(heap) :
          heap[i].state # "pending" => heap'[i] = heap[i]]_vars
  /\ []<>(\A n \in 1..Len(calls) :
             heap[calls[n].und].state # "pending" =>
               heap[calls[n].ret].state = "fulfilled")

C14_Witness ==
  /\ Len(calls) = MaxAsync
  /\ calls[1].und = calls[2].und
  /\ calls[1].impl # calls[2].impl
  /\ heap[calls[1].und].state = "rejected"
  /\ heap[calls[1].ret].state = "fulfilled"
  /\ heap[calls[1].ret].value = Result_Err(Str("foo bar"))
  /\ heap[calls[2].ret].state = "pending"

\* the parser p applied on its own to the value v
Alone(p, v, legacy) == Invocation(p, v, legacy, <<>>)

\* the keys and indices of the input at which the invocation c applied the
\* parser p to a part of its input, in the order of the applications
AppliedTo(c, p) ==
  LET s == SelectSeq(c.seen, LAMBDA e : Len(e.at) = 1 /\ e.p = p)
  IN [j \in 1..Len(s) |-> s[j].at[1]]

\* the error e is the error f with the key or index seg put before its path
Prepended(e, f, seg) ==
  /\ e.path = <<seg>> \o f.path
  /\ e.expected = f.expected /\ e.actual = f.actual
  /\ e.input = f.input /\ e.message = f.message

Least(S) == CHOOSE k \in S : \A j \in S : k <= j

\* C15: array(itemParser) parses the elements from index 0 upwards and stops
\* at the first that fails: it returns that element's error, of the lowest
\* failing index i, with the string form of i put before its path, and
\* applies itemParser to no element after i; when no element fails it returns
\* Ok of an array of the same length whose k-th element is the parsed k-th
\* input element; an input that is not an array is Err; array(number()) on
\* [1, 2, "3"] is Err with path ["2"].  (Of the invocations that return.)
C15_ArrayFailFast ==
  \A n \in 1..Len(calls) :
    LET c == calls[n] IN
      /\ (c.p.k = "array" /\ ~c.out.threw /\ ~isArray(c.input)) =>
           /\ Failed(c) /\ c.err.path = <<>> /\ c.err.input = c.input
           /\ AppliedTo(c, c.p.p) = <<>>
      /\ (c.p.k = "array" /\ ~c.out.threw /\ isArray(c.input)) =>
           LET items == c.input.items
               alone == [k \in 1..Len(items) |->
                           Alone(c.p.p, items[k], c.legacy)]
               failing == {k \in 1..Len(items) : Failed(alone[k])}
           IN IF failing = {}
              THEN /\ ~Failed(c)
                   /\ isArray(c.out.value.value)
                   /\ Len(c.out.value.value.items) = Len(items)
                   /\ \A k \in 1..Len(items) :
                        c.out.value.value.items[k] = alone[k].out.value.value
                   /\ AppliedTo(c, c.p.p) =
                        [k \in 1..Len(items) |-> IndexString(k - 1)]
              ELSE LET i == Least(failing)
                   IN /\ Failed(c)
                      /\ Prepended(c.err, alone[i].err, IndexString(i - 1))
                      /\ AppliedTo(c, c.p.p) =
                           [k \in 1..i |-> IndexString(k - 1)]
      /\ (c.p = array(number(Plain))
            /\ c.input = Arr(<<Num("1"), Num("2"), Str("3")>>)) =>
           Failed(c) /\ c.err.path = <<"2">>

\* array(number()) on [10, "hi", "extra"]: two elements fail, the error is
\* that of index 1 and the element of index 2 was not looked at
C15_Witness ==
  \E n \in 1..Len(calls) :
    /\ calls[n].p = array(number(Plain))
    /\ calls[n].input = Arr(<<Num("10"), Str("hi"), Str("extra")>>)
    /\ Failed(calls[n])
    /\ calls[n].err.path = <<"1">>
    /\ AppliedTo(calls[n], number(Plain)) = <<"0", "1">>

\* the applications, in order, of the parsers named in the sequence parts
\* (of records [at, p]) that the invocation c made
Applications(c, parts) ==
  SelectSeq(c.seen, LAMBDA e : \E n \in 1..Len(parts) : parts[n] = e)

Part(key, p) == [at |-> <<key>>, p |-> p]

RECURSIVE PutAll(_)
PutAll(props) ==
  IF props = <<>> THEN <<>>
  ELSE LET m == Len(props)
       IN Put(PutAll(SubSeq(props, 1, m - 1)), props[m].k, props[m].v)

\* C17: record(keyParser, valueParser) on a plain object goes through the
\* input's entries in order, applying keyParser to the key and then
\* valueParser to the value, and stops at the first failure of either,
\* returning its error with the entry's key put before the path and looking
\* at no later entry; it returns Ok exactly when no key and no value fails,
\* the output then holding each parsed value under its parsed key; an input
\* that is not a plain object is Err.  (Of the invocations that return.)
C17_RecordEntries ==
  \A n \in 1..Len(calls) :
    LET c == calls[n] IN
      /\ (c.p.k = "record" /\ ~c.out.threw /\ ~isPlainObject(c.input)) =>
           /\ Failed(c) /\ c.err.path = <<>> /\ c.err.input = c.input
           /\ c.err.expected = "object"
           /\ Len(c.seen) = 1
      /\ (c.p.k = "record" /\ ~c.out.threw /\ isPlainObject(c.input)) =>
           LET props == c.input.props
               kalone == [k \in 1..Len(props) |->
                            Alone(c.p.kp, Str(props[k].k), c.legacy)]
               valone == [k \in 1..Len(props) |->
                            Alone(c.p.vp, props[k].v, c.legacy)]
               failing == {k \in 1..Len(props) :
                             Failed(kalone[k]) \/ Failed(valone[k])}
               parts == [j \in 1..(2 * Len(props)) |->
                           IF j % 2 = 1 THEN Part(props[(j + 1) \div 2].k, c.p.kp)
                           ELSE Part(props[j \div 2].k, c.p.vp)]
           IN IF failing = {}
              THEN /\ ~Failed(c)
                   /\ isPlainObject(c.out.value.value)
                   /\ c.out.value.value.props =
                        PutAll([k \in 1..Len(props) |->
                                  Prop(kalone[k].out.value.value.s,
                                       valone[k].out.value.value)])
                   /\ Applications(c, parts) = parts
              ELSE LET i == Least(failing)
                   IN /\ Failed(c)
                      /\ IF Failed(kalone[i])
                         THEN /\ Prepended(c.err, kalone[i].err, props[i].k)
                              /\ Applications(c, parts) =
                                   SubSeq(parts, 1, 2 * i - 1)
                         ELSE /\ Prepended(c.err, valone[i].err, props[i].k)
                              /\ Applications(c, parts) =
                                   SubSeq(parts, 1, 2 * i)

\* record(string(), number()) on {a: 1, b: "x", c: true}: the value of b
\* fails, the error has the path ["b"] and the entry c is not looked at
C17_Witness ==
  \E n \in 1..Len(calls) :
    /\ calls[n].p = record(string(Plain), number(Plain))
    /\ isPlainObject(calls[n].input)
    /\ Len(calls[n].input.props) = 3
    /\ Failed(calls[n])
    /\ calls[n].err.path = <<"b">>
    /\ calls[n].err.input = Str("x")
    /\ \A j \in 1..Len(calls[n].seen) : calls[n].seen[j].at # <<"c">>

\* C18: tuple(parsers) on an array applies parsers[i] to input[i] for i from 0
\* to parsers.length - 1, in order, a position the input does not have being
\* given as undefined, and stops at the first that fails, returning its error
\* with the string form of i put before the path; when none fails the result
\* is an array of exactly parsers.length elements, the i-th being what
\* parsers[i] produced, so that input elements further on never appear; an
\* input that is not an array is Err.  (Of the invocations that return.)
C18_TupleByPosition ==
  \A n \in 1..Len(calls) :
    LET c == calls[n] IN
      /\ (c.p.k = "tuple" /\ ~c.out.threw /\ ~isArray(c.input)) =>
           /\ Failed(c) /\ c.err.path = <<>> /\ c.err.input = c.input
           /\ Len(c.seen) = 1
      /\ (c.p.k = "tuple" /\ ~c.out.threw /\ isArray(c.input)) =>
           LET ps == c.p.ps
               items == c.input.items
               given == [k \in 1..Len(ps) |->
                           IF k <= Len(items) THEN items[k] ELSE Undefined]
               alone == [k \in 1..Len(ps) |-> Alone(ps[k], given[k], c.legacy)]
               failing == {k \in 1..Len(ps) : Failed(alone[k])}
               parts == [k \in 1..Len(ps) |-> Part(IndexString(k - 1), ps[k])]
           IN IF failing = {}
              THEN /\ ~Failed(c)
                   /\ isArray(c.out.value.value)
                   /\ c.out.value.value.items =
                        [k \in 1..Len(ps) |-> alone[k].out.value.value]
                   /\ Applications(c, parts) = parts
              ELSE LET i == Least(failing)
                   IN /\ Failed(c)
                      /\ Prepended(c.err, alone[i].err, IndexString(i - 1))
                      /\ Applications(c, parts) = SubSeq(parts, 1, i)

\* tuple([unknown, optional(number())]) on an array of one element: the
\* second parser is given undefined and the result has two elements
C18_Witness ==
  \E n \in 1..Len(calls) :
    /\ calls[n].p = tuple(<<unknown, optional(number(Plain))>>)
    /\ isArray(calls[n].input)
    /\ Len(calls[n].input.items) = 1
    /\ ~Failed(calls[n])
    /\ calls[n].out.value.value.items =
         <<calls[n].input.items[1], Option_None>>

\* the parsers of the sequence ps, each applied to the whole input
Whole(ps) == [k \in 1..Len(ps) |-> [at |-> <<>>, p |-> ps[k]]]

Passed(c) == ~c.out.threw /\ Result_isOk(c.out.value)

\* C19: union(parsers) applies the parsers in their order to the same input
\* and returns the Ok of the first that succeeds, applying none after it;
\* when all fail it returns one new error, none of theirs, whose expected is
\* the parsers' names joined with " | ", whose input is the input given and
\* whose path is empty.  (Of the invocations that return.)
C19_UnionFirstSuccess ==
  \A n \in 1..Len(calls) :
    LET c == calls[n] IN
      (c.p.k = "union" /\ ~c.out.threw) =>
        LET ps == c.p.ps
            alone == [k \in 1..Len(ps) |-> Alone(ps[k], c.input, c.legacy)]
            passing == {k \in 1..Len(ps) : Passed(alone[k])}
        IN IF passing # {}
           THEN LET i == Least(passing)
                IN /\ c.out.value = alone[i].out.value
                   /\ Applications(c, Whole(ps)) = SubSeq(Whole(ps), 1, i)
           ELSE LET names == [k \in 1..Len(ps) |-> Name(ps[k])]
                    e == typeErr(JoinWith(names, " | "), c.input)
                IN /\ Failed(c)
                   /\ c.err.expected = JoinWith(names, " | ")
                   /\ c.err.input = c.input
                   /\ c.err.path = <<>>
                   /\ c.err.message = e.message /\ c.err.actual = e.actual
                   /\ c.err.origin = "union"
                   /\ \A j \in 1..Len(c.log) : c.log[j].final # <<>>
                   /\ Applications(c, Whole(ps)) = Whole(ps)

\* union([number(), unknown, string()]) on "x": number fails, unknown
\* succeeds and string is never applied
C19_Witness ==
  \E n \in 1..Len(calls) :
    /\ calls[n].p = union(<<number(Plain), unknown, string(Plain)>>)
    /\ calls[n].input = Str("x")
    /\ calls[n].out = Return(Result_Ok(Str("x")))
    /\ Len(calls[n].made) = 1
    /\ \A j \in 1..Len(calls[n].seen) : calls[n].seen[j].p # string(Plain)

Keys(props) == {props[j].k : j \in 1..Len(props)}

\* C20: intersection(parsers) applies the parsers in their order to the same
\* input and stops at the first that fails, returning its error as that
\* parser returned it, the path no longer, and applying none after it; when
\* all succeed the result is Ok of an object whose keys are those of the
\* parsers' outputs and no other, each with the value of the last parser
\* whose output has the key.  (Of the invocations that return.)
C20_IntersectionMerges ==
  \A n \in 1..Len(calls) :
    LET c == calls[n] IN
      (c.p.k = "intersection" /\ ~c.out.threw) =>
        LET ps == c.p.ps
            alone == [k \in 1..Len(ps) |-> Alone(ps[k], c.input, c.legacy)]
            failing == {k \in 1..Len(ps) : Failed(alone[k])}
        IN IF failing = {}
           THEN LET out == c.out.value.value
                    outs == [k \in 1..Len(ps) |-> alone[k].out.value.value.props]
                IN /\ ~Failed(c)
                   /\ isPlainObject(out)
                   /\ Cardinality(Keys(out.props)) = Len(out.props)
                   /\ Keys(out.props) =
                        UNION {Keys(outs[k]) : k \in 1..Len(ps)}
                   /\ \A k \in 1..Len(ps) : \A key \in Keys(outs[k]) :
                        (\A l \in (k + 1)..Len(ps) : key \notin Keys(outs[l]))
                          => Get(out.props, key) = Get(outs[k], key)
                   /\ Applications(c, Whole(ps)) = Whole(ps)
           ELSE LET i == Least(failing)
                IN /\ Failed(c)
                   /\ c.err.path = alone[i].err.path
                   /\ c.err.expected = alone[i].err.expected
                   /\ c.err.actual = alone[i].err.actual
                   /\ c.err.input = alone[i].err.input
                   /\ c.err.message = alone[i].err.message
                   /\ Applications(c, Whole(ps)) = SubSeq(Whole(ps), 1, i)

\* intersection([object({a: number({coerce: true})}),
\* object({a: string({coerce: true}), b: string()})]) on
\* {a: 1, b: "x", c: true}: both produce a, the output has the later one's
C20_Witness ==
  \E n \in 1..Len(calls) :
    /\ calls[n].p.k = "intersection"
    /\ calls[n].input =
         Obj(<<Prop("a", Num("1")), Prop("b", Str("x")),
               Prop("c", Bool("true"))>>)
    /\ calls[n].out =
         Return(Result_Ok(BareObj(<<Prop("a", Str("1")), Prop("b", Str("x"))>>)))

\* the invocation c ended as the invocation d did: the same value returned,
\* the same exception raised, or an error with the same fields and path
SameOutcome(c, d) ==
  /\ c.out.threw = d.out.threw
  /\ c.out.threw => c.out = d.out
  /\ Passed(d) => c.out.value = d.out.value
  /\ Failed(d) =>
       /\ Failed(c)
       /\ c.err.path = d.err.path /\ c.err.expected = d.err.expected
       /\ c.err.actual = d.err.actual /\ c.err.input = d.err.input
       /\ c.err.message = d.err.message

\* C21: on null and undefined, optional(p) returns Ok(None), defaulted(p,
\* def) returns Ok(def) and maybe(p) returns Ok of the nil value it was
\* given, none of them applying p; on any other input defaulted and maybe
\* end exactly as p does on that input, and optional returns Ok(Some(v))
\* when p returns Ok(v) and p's error as it is when p fails.
C21_AbsenceShortCircuits ==
  \A n \in 1..Len(calls) :
    LET c == calls[n] IN
      /\ (c.p.k \in {"optional", "defaulted", "maybe"} /\ isNil(c.input)) =>
           /\ Len(c.seen) = 1 /\ c.made = <<>>
           /\ c.p.k = "optional" => c.out = Return(Result_Ok(Option_None))
           /\ c.p.k = "defaulted" => c.out = Return(Result_Ok(c.p.def))
           /\ c.p.k = "maybe" => c.out = Return(Result_Ok(c.input))
      /\ (c.p.k \in {"defaulted", "maybe"} /\ ~isNil(c.input)) =>
           SameOutcome(c, Alone(c.p.p, c.input, c.legacy))
      /\ (c.p.k = "optional" /\ ~isNil(c.input)) =>
           LET d == Alone(c.p.p, c.input, c.legacy)
           IN IF Passed(d)
              THEN c.out = Return(Result_Ok(Option_Some(d.out.value.value)))
              ELSE SameOutcome(c, d)

\* maybe(number({coerce: true})) on null: Ok(null), where the parser itself
\* would have made 0 of it
C21_Witness ==
  \E n \in 1..Len(calls) :
    /\ calls[n].p = maybe(number(Coerce))
    /\ calls[n].input = Null
    /\ calls[n].out = Return(Result_Ok(Null))
    /\ Len(calls[n].seen) = 1
    /\ Alone(number(Coerce), Null, FALSE).out = Return(Result_Ok(Num("0")))

\* fn(...f2(f1(v)))
RECURSIVE Piped(_, _)
Piped(fns, v) ==
  IF fns = <<>> THEN v
  ELSE Apply(fns[Len(fns)], Piped(SubSeq(fns, 1, Len(fns) - 1), v))

\* the calls of the caller's functions that the invocation c made, in order
FnCalls(c) ==
  LET s == SelectSeq(c.seen, LAMBDA e : "fn" \in DOMAIN e.p)
  IN [j \in 1..Len(s) |-> s[j].p]

\* C22: chain(parser, f1, ..., fn) returns Ok(fn(...f2(f1(v)))) when parser
\* returns Ok(v), calling each function once, in the order given (Ok(v) when
\* there is no function), and when parser fails it returns parser's error as
\* it is and calls no function.
C22_ChainPipes ==
  \A n \in 1..Len(calls) :
    LET c == calls[n] IN
      c.p.k = "chain" =>
        LET d == Alone(c.p.p, c.input, c.legacy)
        IN IF Passed(d)
           THEN /\ c.out = Return(Result_Ok(Piped(c.p.fns, d.out.value.value)))
                /\ FnCalls(c) = c.p.fns
           ELSE SameOutcome(c, d) /\ FnCalls(c) = <<>>

\* chain(string({coerce: true}), (s) => s + "a", (s) => s + "b") on 1:
\* Ok("1ab")
C22_Witness ==
  \E n \in 1..Len(calls) :
    /\ calls[n].p = chain(string(Coerce), <<Concat("a"), Concat("b")>>)
    /\ calls[n].input = Num("1")
    /\ calls[n].out = Return(Result_Ok(Str("1ab")))
    /\ FnCalls(calls[n]) = <<Concat("a"), Concat("b")>>

\* C23: number(opts) takes x = input, or x = Number(input) under coerce, and
\* returns Ok(x) when x is a number other than NaN, Infinity and -Infinity,
\* and Err otherwise, by the same test on both paths: number() on NaN and on
\* Infinity is Err and on 42 is Ok(42); number({coerce: true}) on a string
\* that converts to NaN is Err and on "123" is Ok(123).  (Where Number(input)
\* returns.)
C23_NumberFinite ==
  \A n \in 1..Len(calls) :
    LET c == calls[n] IN
      /\ c.p.k = "number" =>
           LET x == IF c.p.opts.coerce THEN JS_Number(c.input)
                    ELSE Return(c.input)
           IN ~x.threw =>
                IF /\ x.value.t = "number"
                   /\ x.value.s \notin {"NaN", "Infinity", "-Infinity"}
                THEN c.out = Return(Result_Ok(x.value))
                ELSE /\ Failed(c)
                     /\ c.err.input = x.value /\ c.err.expected = "number"
                     /\ c.err.path = <<>>
      /\ (c.p = number(Plain) /\ c.input \in {NaN, Infinity}) => Failed(c)
      /\ (c.p = number(Plain) /\ c.input = Num("42")) =>
           c.out = Return(Result_Ok(Num("42")))
      /\ (c.p = number(Coerce) /\ c.input = Str("x")) => Failed(c)
      /\ (c.p = number(Coerce) /\ c.input = Str("123")) =>
           c.out = Return(Result_Ok(Num("123")))

\* number({coerce: true}) on "x": Number("x") is NaN, which is refused as
\* number() refuses NaN
C23_Witness ==
  \E n \in 1..Len(calls) :
    /\ calls[n].p = number(Coerce)
    /\ calls[n].input = Str("x")
    /\ Failed(calls[n])
    /\ calls[n].err.input = NaN
    /\ Failed(Alone(number(Plain), NaN, FALSE))

\* the values of the members an enum declares: those of the properties
\* named by a member, not by a number
MemberValues(en) ==
  {en[i].v : i \in {j \in 1..Len(en) : en[j].k \notin Numerals}}

\* C24: enums(enumObject) returns Ok(input) exactly when the input strictly
\* equals the value of one of the members the enum declares, and Err
\* otherwise; for enum Role { Admin, User, Guest }, of values 0, 1 and 2, the
\* names "Admin", "User" and "Guest" are no member values and are refused.
C24_EnumsMemberValues ==
  \A n \in 1..Len(calls) :
    LET c == calls[n] IN
      c.p.k = "enums" =>
        IF \E v \in MemberValues(c.p.en) : StrictEquals(c.input, v)
        THEN c.out = Return(Result_Ok(c.input))
        ELSE Failed(c)

\* C25: parseJson(text, parser) never raises: when the text does not decode
\* it returns Err of the error the decoder raised and does not apply the
\* parser; when it decodes to d it ends exactly as parser(d) does, with Ok of
\* the parsed value or Err of a ParseError.
C25_ParseJsonOneChannel ==
  last.op = "parseJson" =>
    LET c == last.arg
        d == JSON_parse(c.json)
    IN /\ ~c.out.threw
       /\ d.threw => c.out.value = Result_Err(d.raised) /\ c.seen = <<>>
       /\ ~d.threw => SameOutcome(c, Alone(c.p, d.value, c.legacy))

\* C25 but for the first line: what parseJson does when it does not raise
C25_DecodeThenParse ==
  last.op = "parseJson" =>
    LET c == last.arg
        d == JSON_parse(c.json)
    IN /\ d.threw =>
            /\ c.out = Return(Result_Err(ErrorV("SyntaxError")))
            /\ c.seen = <<>>
       /\ ~d.threw => SameOutcome(c, Alone(c.p, d.value, c.legacy))

(***************************************************************************)
(* The properties of List                                                  *)
(***************************************************************************)
\* C26: List offers an immutable API: after any sequence of method calls on
\* a list, its elements and their order, as toArray(), at() or iteration
\* show them, are those it was created with.
C26_ListImmutable == \A i \in Lists : toArray(heap[i]) = heap[i].was

\* C27: List.dropWhile(f) returns a list of exactly the elements from the
\* first one that does not satisfy f to the end, in order (all of them when
\* the first element does not satisfy f), and List.drop(n), n >= 0, the
\* elements from index n on (all of them for drop(0)).
C27_DropKeepsRest ==
  /\ last.op = "dropWhile" =>
       LET a == last.on
           fails == {i \in 1..Len(a) : a[i] \notin last.arg.f}
       IN toArray(last.out) =
            IF fails = {} THEN <<>> ELSE SubSeq(a, Least(fails), Len(a))
  /\ last.op = "drop" /\ last.arg.n >= 0 =>
       toArray(last.out) = SubSeq(last.on, last.arg.n + 1, Len(last.on))

\* the methods of List that the array module has a function of the same
\* name for, among those C30 names
Refining ==
  {"at", "first", "last", "find", "findIndex", "take", "drop", "takeWhile",
   "dropWhile", "reverse", "uniq", "compact", "insert", "move", "remove",
   "swap"}

C28_ProducerFailureIsErr ==
  /\ last.op = "fromAsync" => ~last.out.threw
  /\ \A n \in 1..Len(calls) : heap[calls[n].ret].state # "rejected"

====
